---- MODULE Spec2Model ----
(***************************************************************************)
(* The client-side hybrid encryption session protocol of the card          *)
(* management frontend: services/encryptionService (getPublicKey,          *)
(* encryptRequest, decryptResponse, clearSession) over the AES-GCM helpers  *)
(* of utils/encryptionUtil.  JavaScript runs the calls on one thread; a     *)
(* call suspends at each await, and other calls run in between.  One        *)
(* action below is one run of a call from one suspension point to the next. *)
(***************************************************************************)
EXTENDS Integers, Sequences, FiniteSets, TLC

\* Bounds of the model.
MaxReq == 2     \* encryptRequest calls
MaxDec == 2     \* decryptResponse calls
MaxSid == 2     \* distinct session ids the key-issuance endpoint may hand out
MaxTime == 2    \* the clock runs from 0 to MaxTime

Reqs == 1..MaxReq
Decs == 1..MaxDec
SessionIds == 1..MaxSid
Times == 0..MaxTime

\* JavaScript's null / undefined, and a value not yet assigned.
Null == <<>>

\* Public key material the endpoint may return: a 2048-bit SPKI key in base64
\* DER, a 512-bit SPKI key (too short for OAEP-SHA-256), bytes that are no key.
PubKeys == {"spki2048", "spki512", "junk"}

\* What axios.get(.../encryption/public-key) may produce: a network error, a
\* body without the data wrapper, or a data object whose sessionId (0: missing
\* or empty), publicKey ("": missing or empty) and expiryTime (one of times)
\* are as the server sent them.
KeyResponsesAt(times) ==
    {<<"neterr">>, <<"nodata">>}
        \cup {<<"data", s, k, e>> :
                 s \in 0..MaxSid, k \in PubKeys \cup {""}, e \in times}

\* The answers of the endpoint where the expiryTime, which no line of the
\* module reads, is not varied: every session expires at the end of time.
KeyResponses == KeyResponsesAt({MaxTime})

\* Payloads given to encryptRequest: JSON.stringify succeeds on the first and
\* throws on the second (a cyclic object, a BigInt).
Payloads == {"json", "cyclic"}

\* The order of one request's lifecycle events.
LifecycleOrder ==
    <<"session", "registered", "encrypted", "wrapped", "returned",
      "received", "removed", "decrypted">>

VARIABLES
    currentSession,   \* userService.ts:164   SessionInfo | null
    aesKeyStore,      \* userService.ts:167   sessionId -> base64 AES key
    pc,               \* encryptRequest call r: its suspension point
    session,          \* encryptRequest call r: const session (line 275)
    aesKey,           \* encryptRequest call r: const aesKey (line 282)
    encryptedData,    \* encryptRequest call r: encryptPayload's result (line 289)
    envelope,         \* encryptRequest call r: the EncryptedRequest returned
    ecause,           \* encryptRequest call r: the step whose error was caught
    eerr,             \* encryptRequest call r: the Error thrown to its caller
    dpc,              \* decryptResponse call d: its suspension point
    denv,             \* decryptResponse call d: the EncryptedResponse argument
    dkey,             \* decryptResponse call d: const aesKey (line 317)
    dres,             \* decryptResponse call d: the payload returned
    dcause,           \* decryptResponse call d: the throw that was caught
    derr,             \* decryptResponse call d: the Error thrown to its caller
    now,              \* the clock (Date.now()), in units of session lifetime
    args,             \* a helper called on its own: its arguments
    results,          \* a helper called on its own: what it returned or threw
    arrived,          \* history: the data response d arrived with
    responseData,     \* cardService interceptor, response d: response.data
    outcome,          \* cardService interceptor, response d: how its promise settled
    clearedFor,       \* history: clearSession ran while request r was outstanding
    issued,           \* history: the session the endpoint sent to call r
    gpkCalls,         \* history: getPublicKey calls made by call r
    log,              \* history: lifecycle events of request r, in order
    consumed,         \* history: sessionId decrypted with success, not registered since
    afterSuccess,     \* history: call d began when its sessionId was consumed
    dinv,             \* history: decryptPayload calls made by call d
    curAtReturn,      \* history: currentSession when call r returned its envelope
    pre               \* history: module state when call r began, while no
                      \*          other call has run since

vars ==
    <<currentSession, aesKeyStore, pc, session, aesKey, encryptedData, envelope,
      ecause, eerr, dpc, denv, dkey, dres, dcause, derr, now, args, results,
      arrived, responseData, outcome, clearedFor,
      issued, gpkCalls, log, consumed, afterSuccess, dinv, curAtReturn, pre>>

encVars == <<pc, session, aesKey, encryptedData, envelope, ecause, eerr>>
decVars == <<dpc, denv, dkey, dres, dcause, derr>>
\* The response interceptor of cardService.
icVars == <<arrived, responseData, outcome>>
\* The clock, the helpers called on their own, the interceptor, and the
\* record of clearSession.
otherVars == <<now, args, results, arrived, responseData, outcome, clearedFor>>
\* The module state, the calls and the clock: all but a helper call's own.
protocolVars ==
    <<currentSession, aesKeyStore, pc, session, aesKey, encryptedData, envelope,
      ecause, eerr, dpc, denv, dkey, dres, dcause, derr, now, arrived,
      responseData, outcome, clearedFor, issued, gpkCalls, log, consumed,
      afterSuccess, dinv, curAtReturn, pre>>

----------------------------------------------------------------------------
\* Values

\* SessionInfo {sessionId, publicKey, expiryTime}.
SessionInfo(sid, pk, exp) == <<sid, pk, exp>>
sessionId(s) == s[1]
publicKey(s) == s[2]
expiryTime(s) == s[3]

\* As generateEncryptionKey, returning one fixed key.
generateEncryptionKeyFixed(r) == <<"aes", 1>>

\* generateEncryptionKey: a fresh random 256-bit key per call; the key of call
\* r is named by r.
generateEncryptionKey(r) == <<"aes", r>>

\* A key the client never generated: data encrypted under it, like data
\* altered in transit, fails the tag check under every key of the client.
ForeignKey == <<"aes", 0>>

\* encryptPayload(payload, key).encryptedData: base64 of IV || AES-GCM(key,
\* JSON.stringify(payload)).  The term records the key and the plaintext kind.
encryptPayload(payload, key) == <<"gcm", key, payload>>

\* The plaintexts that are JSON texts: an object without a success property,
\* and the API results {success: true, ...} and {success: false, ...}.
JsonTexts == {"json", "success", "failure"}

\* The statement of decryptPayload that throws (encryptionUtil.ts:113-137), or
\* "none": importKey, atob of the data, AES-GCM decrypt with its tag check (the
\* authentication failure), JSON.parse (the deserialization failure).
DecryptionFailure(ct, key) ==
    IF key = Null THEN "importKey"               \* atob(undefined)
    ELSE IF ct[1] # "gcm" THEN "atob"            \* atob throws
    ELSE IF ct[2] # key THEN "decrypt"           \* tag does not verify
    ELSE IF ct[3] \notin JsonTexts THEN "parse"   \* JSON.parse throws
    ELSE "none"

\* decryptPayload(encryptedBase64, base64Key): importKey, atob, AES-GCM decrypt
\* with tag check, JSON.parse.  Every throw is caught and rethrown as one Error.
decryptPayload(ct, key) ==
    IF DecryptionFailure(ct, key) = "none" THEN "ok" ELSE "failed"

\* userService.ts:303-306: whatever was caught, encryptRequest throws this.
EncryptRequestError(cause) == "Failed to encrypt request payload"

\* userService.ts:332-335: whatever was caught, decryptResponse throws this.
DecryptResponseError(cause) == "Failed to decrypt response payload"

\* Key material as text: a sequence of pieces, each a PEM delimiter line, white
\* space, a run of base64 characters or a character outside base64.
PemHeader == "-----BEGIN PUBLIC KEY-----"
PemFooter == "-----END PUBLIC KEY-----"
Whitespace == {"\n", " "}

\* The publicKey string of the endpoint's answer as text: the base64 DER of a
\* 2048-bit key (two runs), of a 512-bit key, or no base64.
Base64Text(pk) ==
    IF pk = "spki2048" THEN <<"MIIBIjAN", "IDAQAB">>
    ELSE IF pk = "spki512" THEN <<"MFwwDQYJ">>
    ELSE IF pk = "junk" THEN <<"!">>
    ELSE <<>>
Base64Runs == {"MIIBIjAN", "IDAQAB", "MFwwDQYJ"}

\* text.replace(/\s/g, ""): every white-space piece removed.
RECURSIVE RemoveWhitespace(_)
RemoveWhitespace(text) ==
    IF text = <<>> THEN <<>>
    ELSE IF Head(text) \in Whitespace THEN RemoveWhitespace(Tail(text))
    ELSE <<Head(text)>> \o RemoveWhitespace(Tail(text))

\* text.replace(piece, ""): the first occurrence of piece removed.
RECURSIVE RemoveFirst(_, _)
RemoveFirst(text, piece) ==
    IF text = <<>> THEN <<>>
    ELSE IF Head(text) = piece THEN Tail(text)
    ELSE <<Head(text)>> \o RemoveFirst(Tail(text), piece)

\* text.trim(): leading and trailing white space removed.
RECURSIVE TrimStart(_)
TrimStart(text) ==
    IF text # <<>> /\ Head(text) \in Whitespace THEN TrimStart(Tail(text)) ELSE text
RECURSIVE TrimEnd(_)
TrimEnd(text) ==
    IF text # <<>> /\ text[Len(text)] \in Whitespace
    THEN TrimEnd(SubSeq(text, 1, Len(text) - 1)) ELSE text
trim(text) == TrimEnd(TrimStart(text))

\* atob(text): ASCII white space is removed, then every character must be
\* base64, or atob throws.  AtobBytes names the decoded bytes by their base64.
AtobThrows(text) == \E i \in DOMAIN text : text[i] \notin Base64Runs \cup Whitespace
AtobBytes(text) == RemoveWhitespace(text)

\* crypto.subtle.importKey('spki', bytes, RSA-OAEP/SHA-256): the key the DER
\* encodes, or "failed" when the bytes are no SubjectPublicKeyInfo.
importKeySpki(bytes) ==
    IF bytes = Base64Text("spki2048") THEN "spki2048"
    ELSE IF bytes = Base64Text("spki512") THEN "spki512"
    ELSE "failed"

\* The body of importRSAPublicKeyFromBase64 (userService.ts:172-209): the
\* empty test, trim, atob, importKey; every throw becomes one Error.
ImportRSAPublicKeyFromText(text) ==
    IF text = <<>> \/ trim(text) = <<>> THEN "failed"
    ELSE IF AtobThrows(trim(text)) THEN "failed"
    ELSE importKeySpki(AtobBytes(trim(text)))

\* importPublicKey (rsaEncryptionUtil.ts:12-44): the PEM header and footer and
\* all white space are removed, then atob and importKey.
importPublicKey(text) ==
    LET pemContents ==
            RemoveWhitespace(RemoveFirst(RemoveFirst(text, PemHeader), PemFooter))
    IN  IF AtobThrows(pemContents) THEN "failed"
        ELSE importKeySpki(AtobBytes(pemContents))

\* importRSAPublicKeyFromBase64 as called at line 292, on the publicKey string
\* of the session.
importRSAPublicKeyFromBase64(pk) ==
    IF ImportRSAPublicKeyFromText(Base64Text(pk)) # "failed" THEN "ok" ELSE "failed"

\* encryptWithRSA(data, publicKey): RSA-OAEP over TextEncoder.encode(data), the
\* UTF-8 bytes of the base64 text (44 bytes); OAEP-SHA-256 needs a modulus of
\* at least 110 bytes for them.
encryptWithRSA(data, pk) ==
    IF pk = "spki2048" THEN <<"oaep", pk, "utf8-of-base64", data>> ELSE Null

\* encryptAESKey(base64AESKey, base64PublicKey) (rsaEncryptionUtil.ts:54-100):
\* atob of the key text, importPublicKey, RSA-OAEP over the 32 raw key bytes
\* (a modulus of at least 98 bytes holds them).
encryptAESKey(data, pk) ==
    IF importPublicKey(Base64Text(pk)) = "spki2048"
    THEN <<"oaep", pk, "raw", data>> ELSE Null

\* isEncryptedResponse / the envelope {sessionId, encryptedData, encryptedKey}.
EncryptedEnvelope(sid, data, key) == <<sid, data, key>>
envSessionId(e) == e[1]
envEncryptedData(e) == e[2]
envEncryptedKey(e) == e[3]

----------------------------------------------------------------------------
\* The module as loaded: no session, an empty key store, no call made.
ProtocolInit ==
    /\ currentSession = Null
    /\ aesKeyStore = [s \in SessionIds |-> Null]
    /\ pc = [r \in Reqs |-> "idle"]
    /\ session = [r \in Reqs |-> Null]
    /\ aesKey = [r \in Reqs |-> Null]
    /\ encryptedData = [r \in Reqs |-> Null]
    /\ envelope = [r \in Reqs |-> Null]
    /\ ecause = [r \in Reqs |-> "none"]
    /\ eerr = [r \in Reqs |-> "none"]
    /\ dpc = [d \in Decs |-> "idle"]
    /\ denv = [d \in Decs |-> Null]
    /\ dkey = [d \in Decs |-> Null]
    /\ dres = [d \in Decs |-> "none"]
    /\ dcause = [d \in Decs |-> "none"]
    /\ derr = [d \in Decs |-> "none"]
    /\ now = 0
    /\ arrived = [d \in Decs |-> Null]
    /\ responseData = [d \in Decs |-> Null]
    /\ outcome = [d \in Decs |-> "none"]
    /\ clearedFor = [r \in Reqs |-> FALSE]
    /\ issued = [r \in Reqs |-> Null]
    /\ gpkCalls = [r \in Reqs |-> 0]
    /\ log = [r \in Reqs |-> <<>>]
    /\ consumed = [s \in SessionIds |-> FALSE]
    /\ afterSuccess = [d \in Decs |-> FALSE]
    /\ dinv = [d \in Decs |-> 0]
    /\ curAtReturn = [r \in Reqs |-> Null]
    /\ pre = [r \in Reqs |-> Null]

Init ==
    /\ ProtocolInit
    /\ args = Null
    /\ results = Null

----------------------------------------------------------------------------
\* History bookkeeping (no program state)

Range(f) == {f[i] : i \in DOMAIN f}

\* The log l with the events of es it does not hold yet appended, in order.
RECURSIVE Logged(_, _)
Logged(l, es) ==
    IF es = <<>> THEN l
    ELSE Logged(IF Head(es) \in Range(l) THEN l ELSE Append(l, Head(es)), Tail(es))

\* Call `actor` ran a step: every other call has been interleaved with, and
\* its snapshot of the state before it is dropped.
Ran(actor) == [x \in Reqs |-> IF x = actor THEN pre[x] ELSE Null]
\* A step of no encryptRequest call ran.
Interleaved == [x \in Reqs |-> Null]

\* The requests whose returned envelope carries session id sid.
RequestsOf(sid) ==
    {r \in Reqs : envelope[r] # Null /\ envSessionId(envelope[r]) = sid}

----------------------------------------------------------------------------
\* getPublicKey (userService.ts:239-265)

\* As ValidPublicKeyData, without the test of publicKey.
ValidPublicKeyDataLax(resp) ==
    /\ resp[1] = "data"
    /\ resp[2] # 0

\* Line 246: the data wrapper, sessionId and publicKey are all present and
\* non-empty; a network error makes axios.get throw at line 241.
ValidPublicKeyData(resp) ==
    /\ resp[1] = "data"
    /\ resp[2] # 0
    /\ resp[3] # ""

\* Lines 251-260: the session stored in currentSession and returned.
StoredSession(resp) == SessionInfo(resp[2], resp[3], resp[4])

\* As SessionAfterFailure, with the session cleared when the fetch fails.
SessionClearedOnFailure(cur) == Null

\* Lines 261-264: the catch block rethrows; currentSession is not assigned.
SessionAfterFailure(cur) == cur

----------------------------------------------------------------------------
\* encryptRequest (userService.ts:271-307)

\* As SessionOf, reading the module-level currentSession instead of the const.
SessionOfShared(r) == IF currentSession = Null THEN session[r] ELSE currentSession

\* The session a call uses after line 275: its own const `session`.
SessionOf(r) == session[r]

\* Line 286: aesKeyStore[session.sessionId] = aesKey.
RegisterKey(store, sid, key) == [store EXCEPT ![sid] = key]

\* Line 271/275: the call begins and awaits getPublicKey().
EncryptRequestCall(r) ==
    /\ pc[r] = "idle"
    /\ \A x \in Reqs : x < r => pc[x] # "idle"
    /\ pc' = [pc EXCEPT ![r] = "getPublicKey"]
    /\ gpkCalls' = [gpkCalls EXCEPT ![r] = @ + 1]
    /\ pre' = [x \in Reqs |-> IF x = r THEN <<currentSession, aesKeyStore>> ELSE Null]
    /\ UNCHANGED otherVars
    /\ UNCHANGED curAtReturn
    /\ UNCHANGED <<currentSession, aesKeyStore, session, aesKey, encryptedData,
                   envelope, ecause, eerr, issued, log, consumed, afterSuccess, dinv>>
    /\ UNCHANGED decVars

\* Lines 241-260, 275-279: the endpoint answers with a usable session.
GetPublicKeyOk(r, resp) ==
    /\ pc[r] = "getPublicKey"
    /\ ValidPublicKeyData(resp)
    /\ currentSession' = StoredSession(resp)
    /\ session' = [session EXCEPT ![r] = currentSession']
    /\ issued' = [issued EXCEPT ![r] = StoredSession(resp)]
    /\ IF session'[r] = Null \/ publicKey(session'[r]) = ""
       THEN /\ pc' = [pc EXCEPT ![r] = "failed"]
            /\ ecause' = [ecause EXCEPT ![r] = "session"]
            /\ eerr' = [eerr EXCEPT ![r] = EncryptRequestError("session")]
            /\ log' = log
       ELSE /\ pc' = [pc EXCEPT ![r] = "generateKey"]
            /\ ecause' = ecause
            /\ eerr' = eerr
            /\ log' = [log EXCEPT ![r] = Logged(@, <<"session">>)]
    /\ pre' = Ran(r)
    /\ UNCHANGED otherVars
    /\ UNCHANGED curAtReturn
    /\ UNCHANGED <<aesKeyStore, aesKey, encryptedData, envelope, gpkCalls,
                   consumed, afterSuccess, dinv>>
    /\ UNCHANGED decVars

\* Lines 241-249, 261-264, 303-306: the call to the endpoint fails or its
\* answer is invalid; getPublicKey throws and encryptRequest rethrows.
GetPublicKeyFail(r, resp) ==
    /\ pc[r] = "getPublicKey"
    /\ ~ValidPublicKeyData(resp)
    /\ currentSession' = SessionAfterFailure(currentSession)
    /\ pc' = [pc EXCEPT ![r] = "failed"]
    /\ ecause' = [ecause EXCEPT ![r] = "session"]
    /\ eerr' = [eerr EXCEPT ![r] = EncryptRequestError("session")]
    /\ pre' = Ran(r)
    /\ UNCHANGED otherVars
    /\ UNCHANGED curAtReturn
    /\ UNCHANGED <<aesKeyStore, session, aesKey, encryptedData, envelope, issued,
                   gpkCalls, log, consumed, afterSuccess, dinv>>
    /\ UNCHANGED decVars

\* Lines 282-289: generateEncryptionKey resolves, the key is stored under the
\* session id, encryptPayload is called.
GenerateKeyAndRegister(r) ==
    /\ pc[r] = "generateKey"
    /\ aesKey' = [aesKey EXCEPT ![r] = generateEncryptionKey(r)]
    /\ aesKeyStore' = RegisterKey(aesKeyStore, sessionId(SessionOf(r)), aesKey'[r])
    /\ consumed' = [consumed EXCEPT ![sessionId(SessionOf(r))] = FALSE]
    /\ pc' = [pc EXCEPT ![r] = "encryptPayload"]
    /\ log' = [log EXCEPT ![r] = Logged(@, <<"registered">>)]
    /\ pre' = Ran(r)
    /\ UNCHANGED otherVars
    /\ UNCHANGED curAtReturn
    /\ UNCHANGED <<currentSession, session, encryptedData, envelope, ecause, eerr,
                   issued, gpkCalls, afterSuccess, dinv>>
    /\ UNCHANGED decVars

\* Lines 289-292: encryptPayload resolves; importRSAPublicKeyFromBase64 is called.
EncryptPayloadOk(r, payload) ==
    /\ pc[r] = "encryptPayload"
    /\ payload = "json"
    /\ encryptedData' = [encryptedData EXCEPT ![r] = encryptPayload(payload, aesKey[r])]
    /\ pc' = [pc EXCEPT ![r] = "importKey"]
    /\ log' = [log EXCEPT ![r] = Logged(@, <<"encrypted">>)]
    /\ pre' = Ran(r)
    /\ UNCHANGED otherVars
    /\ UNCHANGED curAtReturn
    /\ UNCHANGED <<currentSession, aesKeyStore, session, aesKey, envelope, ecause, eerr,
                   issued, gpkCalls, consumed, afterSuccess, dinv>>
    /\ UNCHANGED decVars

\* As EncryptRequestCatch, starting the call over instead of rethrowing.
EncryptRequestRetry(r, cause) ==
    /\ pc' = [pc EXCEPT ![r] = "getPublicKey"]
    /\ gpkCalls' = [gpkCalls EXCEPT ![r] = @ + 1]
    /\ pre' = Ran(r)
    /\ UNCHANGED otherVars
    /\ UNCHANGED <<currentSession, aesKeyStore, session, aesKey, encryptedData,
                   envelope, ecause, eerr, issued, log, consumed, afterSuccess,
                   dinv, curAtReturn>>
    /\ UNCHANGED decVars

\* The catch block of encryptRequest, lines 303-306: the error is logged and
\* rethrown; nothing is removed from aesKeyStore.
EncryptRequestCatch(r, cause) ==
    /\ pc' = [pc EXCEPT ![r] = "failed"]
    /\ ecause' = [ecause EXCEPT ![r] = cause]
    /\ eerr' = [eerr EXCEPT ![r] = EncryptRequestError(cause)]
    /\ pre' = Ran(r)
    /\ UNCHANGED otherVars
    /\ UNCHANGED curAtReturn
    /\ UNCHANGED <<currentSession, aesKeyStore, session, aesKey, encryptedData,
                   envelope, issued, gpkCalls, log, consumed, afterSuccess, dinv>>
    /\ UNCHANGED decVars

\* encryptionUtil.ts:66, 96-99: JSON.stringify throws, encryptPayload rethrows.
EncryptPayloadFail(r, payload) ==
    /\ pc[r] = "encryptPayload"
    /\ payload # "json"
    /\ EncryptRequestCatch(r, "encrypt")

\* Lines 292-295: the public key imports; encryptWithRSA is called.
ImportKeyOk(r) ==
    /\ pc[r] = "importKey"
    /\ importRSAPublicKeyFromBase64(publicKey(SessionOf(r))) = "ok"
    /\ pc' = [pc EXCEPT ![r] = "encryptWithRSA"]
    /\ pre' = Ran(r)
    /\ UNCHANGED otherVars
    /\ UNCHANGED curAtReturn
    /\ UNCHANGED <<currentSession, aesKeyStore, session, aesKey, encryptedData,
                   envelope, ecause, eerr, issued, gpkCalls, log, consumed, afterSuccess,
                   dinv>>
    /\ UNCHANGED decVars

\* Lines 191-193, 205-208: the public key does not import.
ImportKeyFail(r) ==
    /\ pc[r] = "importKey"
    /\ importRSAPublicKeyFromBase64(publicKey(SessionOf(r))) # "ok"
    /\ EncryptRequestCatch(r, "import")

\* Lines 295-302: the key is wrapped and the envelope returned.
WrapOk(r) ==
    /\ pc[r] = "encryptWithRSA"
    /\ encryptWithRSA(aesKey[r], publicKey(SessionOf(r))) # Null
    /\ envelope' = [envelope EXCEPT ![r] =
            EncryptedEnvelope(sessionId(SessionOf(r)), encryptedData[r],
                              encryptWithRSA(aesKey[r], publicKey(SessionOf(r))))]
    /\ pc' = [pc EXCEPT ![r] = "done"]
    /\ log' = [log EXCEPT ![r] = Logged(@, <<"wrapped", "returned">>)]
    /\ curAtReturn' = [curAtReturn EXCEPT ![r] = currentSession]
    /\ pre' = Ran(r)
    /\ UNCHANGED otherVars
    /\ UNCHANGED <<currentSession, aesKeyStore, session, aesKey, encryptedData,
                   ecause, eerr, issued, gpkCalls, consumed, afterSuccess, dinv>>
    /\ UNCHANGED decVars

\* Lines 230-233: crypto.subtle.encrypt rejects.
WrapFail(r) ==
    /\ pc[r] = "encryptWithRSA"
    /\ encryptWithRSA(aesKey[r], publicKey(SessionOf(r))) = Null
    /\ EncryptRequestCatch(r, "wrap")

\* As ClearSession, emptying the key store as well.
ClearSessionAndKeys ==
    /\ currentSession # Null
    /\ currentSession' = Null
    /\ aesKeyStore' = [s \in SessionIds |-> Null]
    /\ pre' = Interleaved
    /\ UNCHANGED otherVars
    /\ UNCHANGED <<issued, gpkCalls, log, consumed, afterSuccess, dinv,
                   curAtReturn>>
    /\ UNCHANGED encVars
    /\ UNCHANGED decVars

\* getCurrentSession (userService.ts:360-362): a read of currentSession.
getCurrentSession == currentSession

\* As ClearSessionStep, emptying the key store as well.
ClearSessionStepAndKeys ==
    /\ currentSession # Null
    /\ currentSession' = Null
    /\ aesKeyStore' = [s \in SessionIds |-> Null]
    /\ pre' = Interleaved
    /\ UNCHANGED <<issued, gpkCalls, log, consumed, afterSuccess, dinv,
                   curAtReturn>>
    /\ UNCHANGED encVars
    /\ UNCHANGED decVars

\* clearSession (userService.ts:353-355); with no session stored the call
\* changes nothing.
ClearSessionStep ==
    /\ currentSession # Null
    /\ currentSession' = Null
    /\ pre' = Interleaved
    /\ UNCHANGED curAtReturn
    /\ UNCHANGED <<aesKeyStore, issued, gpkCalls, log, consumed, afterSuccess,
                   dinv>>
    /\ UNCHANGED encVars
    /\ UNCHANGED decVars

\* clearSession is called.
ClearSession ==
    /\ ClearSessionStep
    /\ UNCHANGED otherVars

\* Request r is outstanding: its envelope was returned for sending, its key
\* is on file, and no decryptResponse call holds that key.
Outstanding(r) ==
    /\ pc[r] = "done"
    /\ aesKeyStore[envSessionId(envelope[r])] = aesKey[r]
    /\ \A d \in Decs : ~(dpc[d] = "decryptPayload" /\ dkey[d] = aesKey[r])

\* clearSession is called, and the requests outstanding at the call are
\* put on record.
ClearSessionNoted ==
    /\ ClearSessionStep
    /\ clearedFor' = [r \in Reqs |-> clearedFor[r] \/ Outstanding(r)]
    /\ UNCHANGED <<now, args, results>>
    /\ UNCHANGED icVars

----------------------------------------------------------------------------
\* decryptResponse (userService.ts:312-336)

\* The encryptedData a response for session sid may carry: AES-GCM under the
\* key of an envelope the client returned for sending with that session id,
\* of JSON or of text that is no JSON, data under a key the client does not
\* hold (or altered in transit), or text that is no base64.
Ciphertexts(sid) ==
    {<<"gcm", aesKey[r], b>> : r \in RequestsOf(sid), b \in {"json", "text"}}
        \cup {<<"gcm", ForeignKey, "json">>, <<"notbase64">>}

\* The encryptedKey a response may carry: text that is no key of the client,
\* or the base64 text of an AES key the client did not register.
OpaqueKey == <<"opaque">>
ResponseKeys == {OpaqueKey, ForeignKey}

\* The envelope-shaped responses with an encryptedKey of keys.
ResponsesWith(keys) ==
    UNION {{EncryptedEnvelope(s, c, k) : c \in Ciphertexts(s), k \in keys} :
              s \in SessionIds}

\* The responses decryptResponse is called with where the encryptedKey, which
\* no line of the module reads, is not varied.
Responses == ResponsesWith({OpaqueKey})

\* Line 317: const aesKey = aesKeyStore[sessionId].
LookupKey(store, sid) == store[sid]

\* As KeyForResponse, taking the response's encryptedKey for the key when it
\* is the text of an AES key.
KeyFromResponse(store, env) ==
    IF envEncryptedKey(env)[1] = "aes" THEN envEncryptedKey(env)
    ELSE LookupKey(store, envSessionId(env))

\* Lines 314-317: sessionId and encryptedData are taken from the response and
\* the key is the entry stored under sessionId; encryptedKey is not read.
KeyForResponse(store, env) == LookupKey(store, envSessionId(env))

\* As DeleteKey, every entry of the key store removed.
DeleteAllKeys(store, sid) == [s \in SessionIds |-> Null]

\* As DeleteKey, with the delete left out.
DeleteKeyOmitted(store, sid) == store

\* Line 329: delete aesKeyStore[sessionId].
DeleteKey(store, sid) == [store EXCEPT ![sid] = Null]

\* Lines 333-334: the key store as the catch block leaves it.
StoreAfterCatch(store, sid) == store

\* The argument of a call that has returned: its frame is gone, and the
\* session id it carried is kept as history.
Returned(env) == EncryptedEnvelope(envSessionId(env), Null, Null)

\* The log of every request of session id sid with the events es added.
LogFor(sid, es) ==
    [r \in Reqs |-> IF r \in RequestsOf(sid) THEN Logged(log[r], es) ELSE log[r]]

\* Lines 314-326: the key is on file; decryptPayload is called and awaited.
KeyFoundStep(d, env) ==
    /\ dpc[d] = "idle"
    /\ \A x \in Decs : x < d => dpc[x] # "idle"
    /\ KeyForResponse(aesKeyStore, env) # Null
    /\ denv' = [denv EXCEPT ![d] = env]
    /\ dkey' = [dkey EXCEPT ![d] = KeyForResponse(aesKeyStore, env)]
    /\ dpc' = [dpc EXCEPT ![d] = "decryptPayload"]
    /\ dinv' = [dinv EXCEPT ![d] = @ + 1]
    /\ afterSuccess' = [afterSuccess EXCEPT ![d] = consumed[envSessionId(env)]]
    /\ log' = LogFor(envSessionId(env), <<"received">>)
    /\ pre' = Interleaved
    /\ UNCHANGED curAtReturn
    /\ UNCHANGED <<currentSession, aesKeyStore, dres, dcause, derr, issued, gpkCalls,
                   consumed>>
    /\ UNCHANGED encVars

\* decryptResponse called on its own: the first run of the call, key on file.
DecryptKeyFound(d, env) ==
    /\ KeyFoundStep(d, env)
    /\ UNCHANGED otherVars

\* As DecryptKeyMissing, without the test of line 319: decryptPayload is
\* called with an undefined key.
DecryptKeyUnchecked(d, env) ==
    /\ dpc[d] = "idle"
    /\ \A x \in Decs : x < d => dpc[x] # "idle"
    /\ KeyForResponse(aesKeyStore, env) = Null
    /\ envEncryptedData(env) = <<"notbase64">>
    /\ denv' = [denv EXCEPT ![d] = env]
    /\ dpc' = [dpc EXCEPT ![d] = "decryptPayload"]
    /\ dinv' = [dinv EXCEPT ![d] = @ + 1]
    /\ afterSuccess' = [afterSuccess EXCEPT ![d] = consumed[envSessionId(env)]]
    /\ pre' = Interleaved
    /\ UNCHANGED otherVars
    /\ UNCHANGED <<currentSession, aesKeyStore, dkey, dres, dcause, derr, issued,
                   gpkCalls, log, consumed, curAtReturn>>
    /\ UNCHANGED encVars

\* Lines 314-323, 332-335: no key is on file; the call throws.
KeyMissingStep(d, env) ==
    /\ dpc[d] = "idle"
    /\ \A x \in Decs : x < d => dpc[x] # "idle"
    /\ KeyForResponse(aesKeyStore, env) = Null
    /\ envEncryptedData(env) = <<"notbase64">>     \* never read on this path
    /\ denv' = [denv EXCEPT ![d] = Returned(env)]
    /\ dpc' = [dpc EXCEPT ![d] = "failed"]
    /\ dcause' = [dcause EXCEPT ![d] = "unknownSession"]
    /\ derr' = [derr EXCEPT ![d] = DecryptResponseError("unknownSession")]
    /\ aesKeyStore' = StoreAfterCatch(aesKeyStore, envSessionId(env))
    /\ afterSuccess' = [afterSuccess EXCEPT ![d] = consumed[envSessionId(env)]]
    /\ log' = LogFor(envSessionId(env), <<"received">>)
    /\ pre' = Interleaved
    /\ UNCHANGED curAtReturn
    /\ UNCHANGED <<currentSession, dkey, dres, issued, gpkCalls, consumed, dinv>>
    /\ UNCHANGED encVars

\* decryptResponse called on its own: the only run of the call, no key on file.
DecryptKeyMissing(d, env) ==
    /\ KeyMissingStep(d, env)
    /\ UNCHANGED otherVars

\* Lines 326-331: decryptPayload resolves; the key is deleted and the payload
\* returned.
DecryptPayloadOk(d) ==
    /\ dpc[d] = "decryptPayload"
    /\ decryptPayload(envEncryptedData(denv[d]), dkey[d]) = "ok"
    /\ aesKeyStore' = DeleteKey(aesKeyStore, envSessionId(denv[d]))
    /\ dres' = [dres EXCEPT ![d] = envEncryptedData(denv[d])[3]]
    /\ dpc' = [dpc EXCEPT ![d] = "done"]
    /\ denv' = [denv EXCEPT ![d] = Returned(denv[d])]
    /\ consumed' = [consumed EXCEPT ![envSessionId(denv[d])] = TRUE]
    /\ log' = LogFor(envSessionId(denv[d]), <<"decrypted", "removed">>)
    /\ pre' = Interleaved
    /\ UNCHANGED otherVars
    /\ UNCHANGED curAtReturn
    /\ UNCHANGED <<currentSession, dkey, dcause, derr, issued, gpkCalls,
                   afterSuccess, dinv>>
    /\ UNCHANGED encVars

\* Lines 326, 332-335: decryptPayload rejects; the catch block rethrows and
\* line 329 is not reached.
DecryptPayloadFail(d) ==
    /\ dpc[d] = "decryptPayload"
    /\ decryptPayload(envEncryptedData(denv[d]), dkey[d]) # "ok"
    /\ aesKeyStore' = StoreAfterCatch(aesKeyStore, envSessionId(denv[d]))
    /\ dpc' = [dpc EXCEPT ![d] = "failed"]
    /\ dcause' = [dcause EXCEPT ![d] =
            DecryptionFailure(envEncryptedData(denv[d]), dkey[d])]
    /\ derr' = [derr EXCEPT ![d] = DecryptResponseError(dcause'[d])]
    /\ denv' = [denv EXCEPT ![d] = Returned(denv[d])]
    /\ pre' = Interleaved
    /\ UNCHANGED otherVars
    /\ UNCHANGED curAtReturn
    /\ UNCHANGED <<currentSession, dkey, dres, issued, gpkCalls, log,
                   consumed, afterSuccess, dinv>>
    /\ UNCHANGED encVars

----------------------------------------------------------------------------
Next ==
    \/ \E r \in Reqs : EncryptRequestCall(r)
    \/ \E r \in Reqs, resp \in KeyResponses : GetPublicKeyOk(r, resp)
    \/ \E r \in Reqs, resp \in KeyResponses : GetPublicKeyFail(r, resp)
    \/ \E r \in Reqs : GenerateKeyAndRegister(r)
    \/ \E r \in Reqs, p \in Payloads : EncryptPayloadOk(r, p)
    \/ \E r \in Reqs, p \in Payloads : EncryptPayloadFail(r, p)
    \/ \E r \in Reqs : ImportKeyOk(r)
    \/ \E r \in Reqs : ImportKeyFail(r)
    \/ \E r \in Reqs : WrapOk(r)
    \/ \E r \in Reqs : WrapFail(r)
    \/ \E d \in Decs, env \in Responses : DecryptKeyFound(d, env)
    \/ \E d \in Decs, env \in Responses : DecryptKeyMissing(d, env)
    \/ \E d \in Decs : DecryptPayloadOk(d)
    \/ \E d \in Decs : DecryptPayloadFail(d)
    \/ ClearSession

Spec == Init /\ [][Next]_vars

\* The calls of Next, with responses whose encryptedKey varies.
NextAnyKey ==
    \/ \E r \in Reqs : EncryptRequestCall(r)
    \/ \E r \in Reqs, resp \in KeyResponses : GetPublicKeyOk(r, resp)
    \/ \E r \in Reqs, resp \in KeyResponses : GetPublicKeyFail(r, resp)
    \/ \E r \in Reqs : GenerateKeyAndRegister(r)
    \/ \E r \in Reqs, p \in Payloads : EncryptPayloadOk(r, p)
    \/ \E r \in Reqs, p \in Payloads : EncryptPayloadFail(r, p)
    \/ \E r \in Reqs : ImportKeyOk(r)
    \/ \E r \in Reqs : ImportKeyFail(r)
    \/ \E r \in Reqs : WrapOk(r)
    \/ \E r \in Reqs : WrapFail(r)
    \/ \E d \in Decs, env \in ResponsesWith(ResponseKeys) : DecryptKeyFound(d, env)
    \/ \E d \in Decs, env \in ResponsesWith(ResponseKeys) : DecryptKeyMissing(d, env)
    \/ \E d \in Decs : DecryptPayloadOk(d)
    \/ \E d \in Decs : DecryptPayloadFail(d)

AnyKeySpec == Init /\ [][NextAnyKey]_vars

\* The calls of Next, the requests outstanding at each clearSession recorded.
NextSession ==
    \/ \E r \in Reqs : EncryptRequestCall(r)
    \/ \E r \in Reqs, resp \in KeyResponses : GetPublicKeyOk(r, resp)
    \/ \E r \in Reqs, resp \in KeyResponses : GetPublicKeyFail(r, resp)
    \/ \E r \in Reqs : GenerateKeyAndRegister(r)
    \/ \E r \in Reqs, p \in Payloads : EncryptPayloadOk(r, p)
    \/ \E r \in Reqs, p \in Payloads : EncryptPayloadFail(r, p)
    \/ \E r \in Reqs : ImportKeyOk(r)
    \/ \E r \in Reqs : ImportKeyFail(r)
    \/ \E r \in Reqs : WrapOk(r)
    \/ \E r \in Reqs : WrapFail(r)
    \/ \E d \in Decs, env \in Responses : DecryptKeyFound(d, env)
    \/ \E d \in Decs, env \in Responses : DecryptKeyMissing(d, env)
    \/ \E d \in Decs : DecryptPayloadOk(d)
    \/ \E d \in Decs : DecryptPayloadFail(d)
    \/ ClearSessionNoted

SessionSpec == Init /\ [][NextSession]_vars

\* Time passes.  No call reads the clock.
Tick ==
    /\ now < MaxTime
    /\ now' = now + 1
    /\ UNCHANGED <<args, results, clearedFor>>
    /\ UNCHANGED icVars
    /\ UNCHANGED <<currentSession, aesKeyStore, issued, gpkCalls, log, consumed,
                   afterSuccess, dinv, curAtReturn, pre>>
    /\ UNCHANGED encVars
    /\ UNCHANGED decVars

\* The encryptRequest calls while time passes, the endpoint issuing sessions
\* of every expiryTime.
NextExpiry ==
    \/ \E r \in Reqs : EncryptRequestCall(r)
    \/ \E r \in Reqs, resp \in KeyResponsesAt(Times) : GetPublicKeyOk(r, resp)
    \/ \E r \in Reqs, resp \in KeyResponsesAt(Times) : GetPublicKeyFail(r, resp)
    \/ \E r \in Reqs : GenerateKeyAndRegister(r)
    \/ \E r \in Reqs, p \in Payloads : EncryptPayloadOk(r, p)
    \/ \E r \in Reqs, p \in Payloads : EncryptPayloadFail(r, p)
    \/ \E r \in Reqs : ImportKeyOk(r)
    \/ \E r \in Reqs : ImportKeyFail(r)
    \/ \E r \in Reqs : WrapOk(r)
    \/ \E r \in Reqs : WrapFail(r)
    \/ Tick

ExpirySpec == Init /\ [][NextExpiry]_vars

----------------------------------------------------------------------------
\* The two public-key import functions, each called on its own with one key
\* text.

\* Key texts: an optional PEM header line, a body, an optional PEM footer line.
KeyTextHeads ==
    {<<>>, <<" ">>, <<PemHeader>>, <<PemHeader, "\n">>, <<"\n", PemHeader, "\n">>}
KeyTextBodies ==
    {<<>>,
     <<"MIIBIjAN", "IDAQAB">>,
     <<"MIIBIjAN", "\n", "IDAQAB">>,
     <<"MFwwDQYJ">>,
     <<"IDAQAB", "MIIBIjAN">>,
     <<"MIIBIjAN", "!", "IDAQAB">>}
KeyTextTails ==
    {<<>>, <<"\n">>, <<PemFooter>>, <<"\n", PemFooter>>, <<"\n", PemFooter, "\n">>}
KeyTexts ==
    {h \o b \o f : h \in KeyTextHeads, b \in KeyTextBodies, f \in KeyTextTails}

ImportInit ==
    /\ ProtocolInit
    /\ args \in KeyTexts
    /\ results = <<"pending", "pending">>

\* importRSAPublicKeyFromBase64(args) runs to its return or throw.
ImportRSAPublicKeyFromBase64Call ==
    /\ results[1] = "pending"
    /\ results' = [results EXCEPT ![1] = ImportRSAPublicKeyFromText(args)]
    /\ UNCHANGED args
    /\ UNCHANGED protocolVars

\* importPublicKey(args) runs to its return or throw.
ImportPublicKeyCall ==
    /\ results[2] = "pending"
    /\ results' = [results EXCEPT ![2] = importPublicKey(args)]
    /\ UNCHANGED args
    /\ UNCHANGED protocolVars

NextImport ==
    \/ ImportRSAPublicKeyFromBase64Call
    \/ ImportPublicKeyCall

ImportSpec == ImportInit /\ [][NextImport]_vars

----------------------------------------------------------------------------
\* encryptPayload and decryptPayload (encryptionUtil.ts:56-142), called on
\* their own with one payload and one generated key.

Pending == <<"pending">>
Threw == <<"threw">>

\* JSON-serializable values: null, a boolean, a number, NaN, a string, a Date,
\* and objects and arrays holding nothing, a string, a number or undefined.
JsonValues ==
    {<<"null">>, <<"true">>, <<"number">>, <<"NaN">>, <<"string">>, <<"Date">>,
     <<"object">>, <<"object", "string">>, <<"object", "number">>,
     <<"object", "undefined">>,
     <<"array">>, <<"array", "string">>, <<"array", "number">>,
     <<"array", "undefined">>}

\* The length of a payload's JSON text: with the IV and the tag, no more or
\* more bytes than the engine passes as arguments to one function call.  Only
\* a string and an object or array with contents can be long.
Sizes == {"short", "long"}
CanBeLong(v) ==
    v \in {<<"string">>, <<"object", "string">>, <<"object", "number">>,
           <<"array", "string">>, <<"array", "number">>, <<"array", "undefined">>}

\* The value that JSON.stringify writes for v: NaN is written as null, a Date
\* as the string of its toJSON, an undefined property is left out and an
\* undefined array element is written as null.
Written(v) ==
    IF v = <<"NaN">> THEN <<"null">>
    ELSE IF v = <<"Date">> THEN <<"string">>
    ELSE IF v = <<"object", "undefined">> THEN <<"object">>
    ELSE IF v = <<"array", "undefined">> THEN <<"array", "null">>
    ELSE v

\* JSON.stringify(payload) and JSON.parse(jsonString); a text that is no JSON
\* makes JSON.parse throw.
JsonStringify(v, size) == <<"json", Written(v), size>>
JsonParse(text) == IF text[1] = "json" THEN <<"value", text[2]>> ELSE Threw

\* ENCRYPTION_CONFIG (encryptionUtil.ts:7-12): the IV is 12 bytes, the tag 128
\* bits.
IvLength == 12
TagLength == 16

\* The bytes of the text that JSON.stringify writes for a value of each kind:
\* null, true, 42, "x", {}, {"a":"x"}, {"a":1}, [], ["x"], [1], [null].
JsonLength(w) ==
    CASE w = <<"null">> -> 4
      [] w = <<"true">> -> 4
      [] w = <<"number">> -> 2
      [] w = <<"string">> -> 3
      [] w = <<"object">> -> 2
      [] w = <<"object", "string">> -> 9
      [] w = <<"object", "number">> -> 7
      [] w = <<"array">> -> 2
      [] w = <<"array", "string">> -> 5
      [] w = <<"array", "number">> -> 3
      [] w = <<"array", "null">> -> 6

\* Byte strings are sequences of bytes; a byte is <<kind, content, position>>.
\* new TextEncoder().encode(jsonString): the UTF-8 bytes of the text.
TextEncode(jsonString) ==
    [i \in 1..JsonLength(jsonString[2]) |-> <<"char", jsonString, i>>]

\* new TextDecoder().decode(buffer): the text these bytes encode; bytes that
\* are the encoding of no JSON text decode to text that is no JSON.
TextDecode(bytes) ==
    IF /\ bytes # <<>>
       /\ bytes[1][1] = "char"
       /\ Len(bytes) = JsonLength(bytes[1][2][2])
       /\ bytes = TextEncode(bytes[1][2])
    THEN bytes[1][2]
    ELSE <<"garbled">>

\* The random IVs of crypto.getRandomValues, and the 12 bytes of each.
IVs == {"iv1", "iv2"}
IvBytes(iv) == [i \in 1..IvLength |-> <<"iv", <<iv>>, i>>]

\* As InitializationVector, one constant IV for every call.
InitializationVectorFixed(random) == IvBytes("iv1")

\* Line 70: const iv = crypto.getRandomValues(new Uint8Array(ivLength)).
InitializationVector(random) == IvBytes(random)

\* AES-GCM: the ciphertext is as long as the data, byte i being byte i of the
\* data under the key stream of (key, iv), and the tag is TagLength bytes
\* computed from the key, the IV and the whole ciphertext.
GcmCiphertext(key, iv, data) ==
    [i \in 1..Len(data) |-> <<"ctr", <<key, iv, data[i]>>, i>>]
GcmTag(key, iv, ciphertext) ==
    [i \in 1..TagLength |-> <<"tag", <<key, iv, ciphertext>>, i>>]

\* crypto.subtle.encrypt({name: AES-GCM, iv, tagLength}, key, data): the
\* ciphertext followed by the tag.
GcmEncrypt(key, iv, data) ==
    GcmCiphertext(key, iv, data) \o GcmTag(key, iv, GcmCiphertext(key, iv, data))

\* Byte i of a ciphertext under the key stream of (key, iv): the data byte it
\* was made from when it was made at position i under that key stream.
GcmPlainByte(key, iv, byte, i) ==
    IF byte[1] = "ctr" /\ byte[3] = i /\ byte[2][1] = key /\ byte[2][2] = iv
    THEN byte[2][3]
    ELSE <<"noise", <<byte>>, i>>

\* As GcmDecrypt, returning the plaintext without comparing the tag.
GcmDecryptUnchecked(key, iv, data) ==
    IF Len(data) < TagLength THEN Threw
    ELSE LET ciphertext == SubSeq(data, 1, Len(data) - TagLength)
         IN  <<"plain", [i \in 1..Len(ciphertext) |->
                            GcmPlainByte(key, iv, ciphertext[i], i)]>>

\* crypto.subtle.decrypt({name: AES-GCM, iv, tagLength}, key, data): the last
\* TagLength bytes are the tag; it is computed again from the key, the IV and
\* the bytes before it, and the call rejects unless the two are equal.
GcmDecrypt(key, iv, data) ==
    IF Len(data) < TagLength \/ Len(iv) = 0 THEN Threw
    ELSE LET ciphertext == SubSeq(data, 1, Len(data) - TagLength)
             tag == SubSeq(data, Len(data) - TagLength + 1, Len(data))
         IN  IF tag # GcmTag(key, iv, ciphertext) THEN Threw
             ELSE <<"plain", [i \in 1..Len(ciphertext) |->
                                GcmPlainByte(key, iv, ciphertext[i], i)]>>

\* As Combined, without the IV in front.
CombinedWithoutIv(iv, encrypted) == encrypted

\* Lines 84-87: the IV, then the encrypted data.
Combined(iv, encrypted) == iv \o encrypted

\* Lines 119-120: combined.slice(0, ivLength) and combined.slice(ivLength).
SplitCombined(combined) ==
    <<SubSeq(combined, 1, IF Len(combined) < IvLength THEN Len(combined) ELSE IvLength),
      SubSeq(combined, IvLength + 1, Len(combined))>>

\* btoa(String.fromCharCode(...bytes)) and Uint8Array.from(atob(text), ...).
Btoa(bytes) == <<"base64", bytes>>
Atob(text) == text[2]

\* encryptPayload(payload, base64Key) with the IV drawn: the key is imported,
\* the payload written as JSON and encoded, encrypted under the key and the
\* IV, the IV put in front, and the bytes spread into String.fromCharCode for
\* btoa (line 90), which throws when they are more than one call takes.  The
\* result is {encryptedData, encryptionKey}.
EncryptPayloadResult(payload, size, base64Key, random) ==
    LET jsonString == JsonStringify(payload, size)
        data == TextEncode(jsonString)
        iv == InitializationVector(random)
        encryptedBuffer == GcmEncrypt(base64Key, iv, data)
        combined == Combined(iv, encryptedBuffer)
    IN  IF size = "long" THEN Threw
        ELSE <<Btoa(combined), base64Key>>

\* decryptPayload(encryptedBase64, base64Key): importKey, atob, the first 12
\* bytes are the IV, AES-GCM decrypt with the tag check, decode, JSON.parse.
DecryptPayloadResult(encryptedBase64, base64Key) ==
    IF encryptedBase64[1] # "base64" THEN Threw
    ELSE LET combined == Atob(encryptedBase64)
             iv == SplitCombined(combined)[1]
             encrypted == SplitCombined(combined)[2]
             decryptedBuffer == GcmDecrypt(base64Key, iv, encrypted)
         IN  IF decryptedBuffer = Threw THEN Threw
             ELSE JsonParse(TextDecode(decryptedBuffer[2]))

RoundTripInit ==
    /\ ProtocolInit
    /\ args \in {a \in {<<v, size, generateEncryptionKey(r)>> :
                            v \in JsonValues, size \in Sizes, r \in Reqs} :
                    a[2] = "long" => CanBeLong(a[1])}
    /\ results = <<Pending, Pending>>

\* encryptPayload(payload, key) runs to its return or throw.
EncryptPayloadCall(iv) ==
    /\ results[1] = Pending
    /\ results' = [results EXCEPT ![1] =
            EncryptPayloadResult(args[1], args[2], args[3], iv)]
    /\ UNCHANGED args
    /\ UNCHANGED protocolVars

\* decryptPayload(encryptedData, key) runs on what encryptPayload returned.
DecryptPayloadCall ==
    /\ results[1] \notin {Pending, Threw}
    /\ results[2] = Pending
    /\ results' = [results EXCEPT ![2] = DecryptPayloadResult(results[1][1], args[3])]
    /\ UNCHANGED args
    /\ UNCHANGED protocolVars

NextRoundTrip ==
    \/ \E iv \in IVs : EncryptPayloadCall(iv)
    \/ DecryptPayloadCall

RoundTripSpec == RoundTripInit /\ [][NextRoundTrip]_vars

----------------------------------------------------------------------------
\* decryptPayload (encryptionUtil.ts:108-142) called with an envelope that was
\* altered after encryptPayload returned it, or with another key.

\* The bytes of the envelope of a payload: the IV, the ciphertext, the tag.
EnvelopeLength(v) == IvLength + JsonLength(Written(v)) + TagLength

\* What is done to the bytes: nothing, the byte at a position is changed to
\* another byte, or only the first bytes are kept.
Alterations(v) ==
    {<<"none", 0>>}
        \cup {<<"flip", p>> : p \in 1..EnvelopeLength(v)}
        \cup {<<"truncate", n>> : n \in 0..(EnvelopeLength(v) - 1)}

AlterBytes(bytes, alteration) ==
    CASE alteration[1] = "none" -> bytes
      [] alteration[1] = "flip" ->
            [bytes EXCEPT ![alteration[2]] = <<"flipped", <<@>>, alteration[2]>>]
      [] alteration[1] = "truncate" -> SubSeq(bytes, 1, alteration[2])

\* The keys decryptPayload may be given: the keys the client generates and a
\* key it never generated.
DecryptionKeys == {generateEncryptionKey(r) : r \in Reqs} \cup {ForeignKey}

IntegrityInit ==
    /\ ProtocolInit
    /\ args \in UNION {{<<v, "short", generateEncryptionKey(r), a, k>> :
                           r \in Reqs, a \in Alterations(v), k \in DecryptionKeys} :
                          v \in JsonValues}
    /\ results = <<Pending, Pending, Pending>>

\* The encryptedData that encryptPayload returned is altered on its way.
AlterEnvelope ==
    /\ results[1] \notin {Pending, Threw}
    /\ results[3] = Pending
    /\ results' = [results EXCEPT ![3] = Btoa(AlterBytes(Atob(results[1][1]), args[4]))]
    /\ UNCHANGED args
    /\ UNCHANGED protocolVars

\* decryptPayload(altered encryptedData, key) runs to its return or throw.
DecryptAlteredCall ==
    /\ results[3] # Pending
    /\ results[2] = Pending
    /\ results' = [results EXCEPT ![2] = DecryptPayloadResult(results[3], args[5])]
    /\ UNCHANGED args
    /\ UNCHANGED protocolVars

NextIntegrity ==
    \/ \E iv \in IVs : EncryptPayloadCall(iv)
    \/ AlterEnvelope
    \/ DecryptAlteredCall

IntegritySpec == IntegrityInit /\ [][NextIntegrity]_vars

----------------------------------------------------------------------------
\* encryptPayload called twice with one payload and one key
\* (currencyFormatter.ts:74-96), each result then decrypted.

\* The IV bytes in front of an encryptedData, and the random value they are.
IvOf(encryptedBase64) == SplitCombined(Atob(encryptedBase64))[1]
RandomOf(encryptedBase64) == IvOf(encryptedBase64)[1][2][1]

\* crypto.getRandomValues on 12 bytes: 96 random bits, taken never to be a
\* value that was drawn before.
getRandomValues(drawn) == IVs \ drawn

TwoCallsInit ==
    /\ ProtocolInit
    /\ args \in {<<v, "short", generateEncryptionKey(r)>> :
                    v \in JsonValues, r \in Reqs}
    /\ results = <<Pending, Pending, Pending, Pending>>

\* The second encryptPayload(payload, key) runs to its return or throw.
SecondEncryptPayloadCall(iv) ==
    /\ results[1] \notin {Pending, Threw}
    /\ results[3] = Pending
    /\ iv \in getRandomValues({RandomOf(results[1][1])})
    /\ results' = [results EXCEPT ![3] =
            EncryptPayloadResult(args[1], args[2], args[3], iv)]
    /\ UNCHANGED args
    /\ UNCHANGED protocolVars

\* decryptPayload(encryptedData, key) runs on what the second call returned.
SecondDecryptPayloadCall ==
    /\ results[3] \notin {Pending, Threw}
    /\ results[4] = Pending
    /\ results' = [results EXCEPT ![4] = DecryptPayloadResult(results[3][1], args[3])]
    /\ UNCHANGED args
    /\ UNCHANGED protocolVars

NextTwoCalls ==
    \/ \E iv \in IVs : EncryptPayloadCall(iv)
    \/ DecryptPayloadCall
    \/ \E iv \in IVs : SecondEncryptPayloadCall(iv)
    \/ SecondDecryptPayloadCall

TwoCallsSpec == TwoCallsInit /\ [][NextTwoCalls]_vars

----------------------------------------------------------------------------
\* isEncryptedResponse (userService.ts:341-348), called on its own with one
\* candidate value.

\* JavaScript values as <<type, content>>; an object's content is the values
\* of its sessionId, encryptedData and encryptedKey properties, undefined for
\* a property it does not have.
JsUndefined == <<"undefined", <<>>>>
JsNull == <<"null", <<>>>>
JsTrue == <<"boolean", <<"true">>>>
JsFalse == <<"boolean", <<"false">>>>
Primitives ==
    {JsUndefined, JsNull, JsTrue, JsFalse, <<"number", <<"0">>>>,
     <<"number", <<"1">>>>, <<"string", <<"">>>>, <<"string", <<"abc">>>>}

\* What a property of a response body may hold: nothing, null, an empty or a
\* non-empty string, a number, a boolean, an object (an array, a String object).
PropertyValues ==
    {JsUndefined, JsNull, <<"string", <<"">>>>, <<"string", <<"abc">>>>,
     <<"number", <<"1">>>>, JsTrue, <<"object", <<>>>>}

Candidates ==
    Primitives
        \cup {<<"object", <<s, d, k>>>> :
                 s \in PropertyValues, d \in PropertyValues, k \in PropertyValues}

\* typeof v, and whether v counts as true in a condition.
TypeOf(v) == IF v[1] = "null" THEN "object" ELSE v[1]
Truthy(v) ==
    /\ v[1] \notin {"undefined", "null"}
    /\ v[1] \in {"boolean", "number", "string"} => v[2] \notin {<<"false">>, <<"0">>, <<"">>}

\* v.sessionId (i = 1), v.encryptedData (2), v.encryptedKey (3): undefined on
\* a primitive and on an object without the property.
Property(v, i) ==
    IF v[1] = "object" /\ Len(v[2]) >= i THEN v[2][i] ELSE JsUndefined

\* As isEncryptedResponse, without the test of encryptedKey.
isEncryptedResponseLax(response) ==
    IF ~Truthy(response) THEN response
    ELSE IF /\ TypeOf(Property(response, 1)) = "string"
            /\ TypeOf(Property(response, 2)) = "string"
         THEN JsTrue ELSE JsFalse

\* isEncryptedResponse(response): response && typeof response.sessionId ===
\* 'string' && typeof response.encryptedData === 'string' && typeof
\* response.encryptedKey === 'string'; a chain of && yields its first operand
\* that does not count as true, or its last.
isEncryptedResponse(response) ==
    IF ~Truthy(response) THEN response
    ELSE IF /\ TypeOf(Property(response, 1)) = "string"
            /\ TypeOf(Property(response, 2)) = "string"
            /\ TypeOf(Property(response, 3)) = "string"
         THEN JsTrue ELSE JsFalse

EnvelopeInit ==
    /\ ProtocolInit
    /\ args \in Candidates
    /\ results = Pending

\* isEncryptedResponse(args) returns.
IsEncryptedResponseCall ==
    /\ results = Pending
    /\ results' = isEncryptedResponse(args)
    /\ UNCHANGED args
    /\ UNCHANGED protocolVars

NextEnvelope == IsEncryptedResponseCall

EnvelopeSpec == EnvelopeInit /\ [][NextEnvelope]_vars

----------------------------------------------------------------------------
\* The response interceptor of cardService (cardService.ts:139-169).  The
\* decryptResponse call it makes for response d is call d.

\* Response bodies: objects with a fourth property, success.
PlainBody(flag) == <<"object", <<JsUndefined, JsUndefined, JsUndefined, flag>>>>
Body(env, flag) ==
    <<"object", <<<<"string", <<"sid", envSessionId(env)>>>>,
                  <<"string", envEncryptedData(env)>>,
                  <<"string", envEncryptedKey(env)>>, flag>>>>
\* A body with sessionId and encryptedData and without encryptedKey.
KeylessBody(sid, flag) ==
    <<"object", <<<<"string", <<"sid", sid>>>>, <<"string", <<"notbase64">>>>,
                  JsUndefined, flag>>>>

\* The EncryptedResponse that an envelope-shaped body is.
EnvelopeOf(body) ==
    EncryptedEnvelope(body[2][1][2][2], body[2][2][2], body[2][3][2])

\* The encryptedData of the responses of the API: as Ciphertexts, the JSON
\* texts being API results with success true or false.
ApiCiphertexts(sid) ==
    {<<"gcm", aesKey[r], b>> :
        r \in RequestsOf(sid), b \in {"success", "failure"}}
        \cup {<<"gcm", ForeignKey, "json">>, <<"notbase64">>}

\* The bodies a response may arrive with: envelope-shaped ones, with or
\* without a success property of their own, bodies that lack encryptedKey,
\* plain API results, and no body.
Bodies ==
    UNION {{Body(EncryptedEnvelope(s, c, OpaqueKey), flag) :
               c \in ApiCiphertexts(s), flag \in {JsUndefined, JsFalse}} :
              s \in SessionIds}
        \cup {KeylessBody(s, flag) :
                 s \in SessionIds, flag \in {JsUndefined, JsFalse}}
        \cup {PlainBody(flag) : flag \in {JsUndefined, JsTrue, JsFalse}}
        \cup {JsNull}

\* JSON.parse of a decrypted JSON text, as response data.
DataOf(text) ==
    CASE text = "success" -> PlainBody(JsTrue)
      [] text = "failure" -> PlainBody(JsFalse)
      [] OTHER -> PlainBody(JsUndefined)

\* As Routed, with a test that does not look at encryptedKey.
RoutedLax(body) == Truthy(body) /\ Truthy(isEncryptedResponseLax(body))

\* Line 142: response.data && isEncryptedResponse(response.data).
Routed(body) == Truthy(body) /\ Truthy(isEncryptedResponse(body))

\* As DataChecked, the success test reading the data the response arrived with.
DataCheckedBeforeDecryption(arrivedBody, data) == arrivedBody

\* Lines 146, 158: the success test reads response.data, which line 146 has
\* replaced by the decrypted payload.
DataChecked(arrivedBody, data) == data

\* Lines 158-168: a response whose data has a boolean success that is false
\* is rejected with isApiError; every other response is returned.
SuccessCheck(data) ==
    IF /\ Truthy(data)
       /\ TypeOf(Property(data, 4)) = "boolean"
       /\ ~Truthy(Property(data, 4))
    THEN "apiError" ELSE "resolved"

\* As DecryptionErrorOutcome, the error swallowed and the response returned.
DecryptionErrorSwallowed == "resolved"

\* Lines 147-154: the catch block rejects with isDecryptionError.
DecryptionErrorOutcome == "decryptionError"

\* A body with the content of its encryptedData and encryptedKey left out and
\* their types kept: the call that was given them holds them while it runs.
Redacted(body) ==
    <<"object", <<body[2][1], <<body[2][2][1], <<>>>>, <<body[2][3][1], <<>>>>,
                  body[2][4]>>>>

\* The bookkeeping of a response that is handed to decryptResponse.
AwaitDecryptResponse(d, body) ==
    /\ arrived' = [arrived EXCEPT ![d] = Redacted(body)]
    /\ responseData' = [responseData EXCEPT ![d] = Redacted(body)]
    /\ outcome' = [outcome EXCEPT ![d] = "awaiting"]
    /\ UNCHANGED <<now, args, results, clearedFor>>

\* Lines 140-145: the data is envelope-shaped; decryptResponse is called,
\* finds the key and awaits decryptPayload.
InterceptKeyFound(d, body) ==
    /\ outcome[d] = "none"
    /\ Routed(body)
    /\ KeyFoundStep(d, EnvelopeOf(body))
    /\ AwaitDecryptResponse(d, body)

\* Lines 140-145: the data is envelope-shaped; decryptResponse is called and
\* throws, no key being on file.
InterceptKeyMissing(d, body) ==
    /\ outcome[d] = "none"
    /\ Routed(body)
    /\ KeyMissingStep(d, EnvelopeOf(body))
    /\ AwaitDecryptResponse(d, body)

\* Lines 145-146, 158-168: decryptResponse has returned; response.data is
\* replaced and the success test made.
InterceptDecrypted(d) ==
    /\ outcome[d] = "awaiting"
    /\ dpc[d] = "done"
    /\ responseData' = [responseData EXCEPT ![d] = DataOf(dres[d])]
    /\ outcome' = [outcome EXCEPT ![d] =
            SuccessCheck(DataChecked(arrived[d], responseData'[d]))]
    /\ pre' = Interleaved
    /\ UNCHANGED <<now, args, results, arrived, clearedFor>>
    /\ UNCHANGED <<currentSession, aesKeyStore, issued, gpkCalls, log, consumed,
                   afterSuccess, dinv, curAtReturn>>
    /\ UNCHANGED encVars
    /\ UNCHANGED decVars

\* Lines 147-154: decryptResponse has thrown; the interceptor rejects.
InterceptDecryptionError(d) ==
    /\ outcome[d] = "awaiting"
    /\ dpc[d] = "failed"
    /\ outcome' = [outcome EXCEPT ![d] = DecryptionErrorOutcome]
    /\ pre' = Interleaved
    /\ UNCHANGED <<now, args, results, arrived, responseData, clearedFor>>
    /\ UNCHANGED <<currentSession, aesKeyStore, issued, gpkCalls, log, consumed,
                   afterSuccess, dinv, curAtReturn>>
    /\ UNCHANGED encVars
    /\ UNCHANGED decVars

\* Lines 140-142, 158-168: the data is not envelope-shaped; the success test
\* is made on it as it came.
InterceptPlain(d, body) ==
    /\ outcome[d] = "none"
    /\ dpc[d] = "idle"
    /\ \A x \in Decs : x < d => outcome[x] # "none"
    /\ ~Routed(body)
    /\ arrived' = [arrived EXCEPT ![d] = body]
    /\ responseData' = [responseData EXCEPT ![d] = body]
    /\ outcome' = [outcome EXCEPT ![d] = SuccessCheck(body)]
    /\ pre' = Interleaved
    /\ UNCHANGED <<now, args, results, clearedFor>>
    /\ UNCHANGED <<currentSession, aesKeyStore, issued, gpkCalls, log, consumed,
                   afterSuccess, dinv, curAtReturn>>
    /\ UNCHANGED encVars
    /\ UNCHANGED decVars

\* The answers of the key-issuance endpoint that encryptRequest can use.
UsableKeyResponses == {<<"data", s, "spki2048", MaxTime>> : s \in SessionIds}

\* The requests of cardService, the endpoint answering with usable keys,
\* and the responses passing through the interceptor.
NextInterceptor ==
    \/ \E r \in Reqs : EncryptRequestCall(r)
    \/ \E r \in Reqs, resp \in UsableKeyResponses : GetPublicKeyOk(r, resp)
    \/ \E r \in Reqs : GenerateKeyAndRegister(r)
    \/ \E r \in Reqs, p \in Payloads : EncryptPayloadOk(r, p)
    \/ \E r \in Reqs : ImportKeyOk(r)
    \/ \E r \in Reqs : WrapOk(r)
    \/ \E d \in Decs, body \in Bodies : InterceptKeyFound(d, body)
    \/ \E d \in Decs, body \in Bodies : InterceptKeyMissing(d, body)
    \/ \E d \in Decs : DecryptPayloadOk(d)
    \/ \E d \in Decs : DecryptPayloadFail(d)
    \/ \E d \in Decs : InterceptDecrypted(d)
    \/ \E d \in Decs : InterceptDecryptionError(d)
    \/ \E d \in Decs, body \in Bodies : InterceptPlain(d, body)

InterceptorSpec == Init /\ [][NextInterceptor]_vars

----------------------------------------------------------------------------
\* The submit handler of the AddCard page (AddCard.tsx:381-395): it builds
\* its envelope with fetchPublicKey, encryptPayload and encryptAESKey and
\* posts it with createCardSecure, through the api instance of cardService
\* and so through its response interceptor.  Submit r uses the variables of
\* request r.

\* Line 386: handleSubmit begins and awaits fetchPublicKey.
AddCardSubmit(r) ==
    /\ pc[r] = "idle"
    /\ \A x \in Reqs : x < r => pc[x] # "idle"
    /\ pc' = [pc EXCEPT ![r] = "fetchPublicKey"]
    /\ pre' = [x \in Reqs |-> IF x = r THEN <<currentSession, aesKeyStore>> ELSE Null]
    /\ UNCHANGED otherVars
    /\ UNCHANGED <<currentSession, aesKeyStore, session, aesKey, encryptedData,
                   envelope, ecause, eerr, issued, gpkCalls, log, consumed,
                   afterSuccess, dinv, curAtReturn>>
    /\ UNCHANGED decVars

\* fetchPublicKey (rsaEncryptionUtil.ts:108-138) returns {sessionId,
\* publicKey} of a valid answer; it assigns no module variable.  Line 389:
\* encryptPayload is called without a key.
FetchPublicKeyOk(r, resp) ==
    /\ pc[r] = "fetchPublicKey"
    /\ ValidPublicKeyData(resp)
    /\ session' = [session EXCEPT ![r] = StoredSession(resp)]
    /\ issued' = [issued EXCEPT ![r] = StoredSession(resp)]
    /\ pc' = [pc EXCEPT ![r] = "encryptPayloadNewKey"]
    /\ log' = [log EXCEPT ![r] = Logged(@, <<"session">>)]
    /\ pre' = Ran(r)
    /\ UNCHANGED otherVars
    /\ UNCHANGED <<currentSession, aesKeyStore, aesKey, encryptedData, envelope,
                   ecause, eerr, gpkCalls, consumed, afterSuccess, dinv, curAtReturn>>
    /\ UNCHANGED decVars

\* Line 389, encryptionUtil.ts:62: encryptPayload generates the key itself and
\* returns it with the data; the key is held by handleSubmit alone.  Line
\* 392: encryptAESKey is called.
AddCardEncryptPayload(r) ==
    /\ pc[r] = "encryptPayloadNewKey"
    /\ aesKey' = [aesKey EXCEPT ![r] = generateEncryptionKey(r)]
    /\ encryptedData' = [encryptedData EXCEPT ![r] = encryptPayload("json", aesKey'[r])]
    /\ pc' = [pc EXCEPT ![r] = "encryptAESKey"]
    /\ log' = [log EXCEPT ![r] = Logged(@, <<"encrypted">>)]
    /\ pre' = Ran(r)
    /\ UNCHANGED otherVars
    /\ UNCHANGED <<currentSession, aesKeyStore, session, envelope, ecause, eerr,
                   issued, gpkCalls, consumed, afterSuccess, dinv, curAtReturn>>
    /\ UNCHANGED decVars

\* Lines 392-395, cardService.ts:223-231: the key is wrapped and the envelope
\* {sessionId, encryptedData, encryptedKey} posted.
CreateCardSecure(r) ==
    /\ pc[r] = "encryptAESKey"
    /\ encryptAESKey(aesKey[r], publicKey(SessionOf(r))) # Null
    /\ envelope' = [envelope EXCEPT ![r] =
            EncryptedEnvelope(sessionId(SessionOf(r)), encryptedData[r],
                              encryptAESKey(aesKey[r], publicKey(SessionOf(r))))]
    /\ pc' = [pc EXCEPT ![r] = "done"]
    /\ log' = [log EXCEPT ![r] = Logged(@, <<"wrapped", "returned">>)]
    /\ curAtReturn' = [curAtReturn EXCEPT ![r] = currentSession]
    /\ pre' = Ran(r)
    /\ UNCHANGED otherVars
    /\ UNCHANGED <<currentSession, aesKeyStore, session, aesKey, encryptedData,
                   ecause, eerr, issued, gpkCalls, consumed, afterSuccess, dinv>>
    /\ UNCHANGED decVars

\* The envelope-shaped bodies the API may answer with.
EnvelopeBodies ==
    UNION {{Body(EncryptedEnvelope(s, c, OpaqueKey), JsUndefined) :
               c \in ApiCiphertexts(s)} : s \in SessionIds}

\* The requests of cardService and the submits of the AddCard page, the
\* endpoint answering with usable keys, and their encrypted responses
\* passing through the interceptor.
NextAddCard ==
    \/ \E r \in Reqs : EncryptRequestCall(r)
    \/ \E r \in Reqs, resp \in UsableKeyResponses : GetPublicKeyOk(r, resp)
    \/ \E r \in Reqs : GenerateKeyAndRegister(r)
    \/ \E r \in Reqs, p \in Payloads : EncryptPayloadOk(r, p)
    \/ \E r \in Reqs : ImportKeyOk(r)
    \/ \E r \in Reqs : WrapOk(r)
    \/ \E r \in Reqs : AddCardSubmit(r)
    \/ \E r \in Reqs, resp \in UsableKeyResponses : FetchPublicKeyOk(r, resp)
    \/ \E r \in Reqs : AddCardEncryptPayload(r)
    \/ \E r \in Reqs : CreateCardSecure(r)
    \/ \E d \in Decs, body \in EnvelopeBodies : InterceptKeyFound(d, body)
    \/ \E d \in Decs, body \in EnvelopeBodies : InterceptKeyMissing(d, body)
    \/ \E d \in Decs : DecryptPayloadOk(d)
    \/ \E d \in Decs : DecryptPayloadFail(d)
    \/ \E d \in Decs : InterceptDecrypted(d)
    \/ \E d \in Decs : InterceptDecryptionError(d)

AddCardSpec == Init /\ [][NextAddCard]_vars

----------------------------------------------------------------------------
\* Properties

Finished(d) == dpc[d] \in {"done", "failed"}
InFlight(r) == pc[r] \notin {"idle", "done", "failed"}
dSessionId(d) == envSessionId(denv[d])

\* C1: single use, sequential case.  A decryptResponse call that begins after
\* a call for the same session id has completed successfully, no
\* encryptRequest having registered that id in between, fails at the key
\* lookup (no key for the session) and returns no payload.
SingleUseSequential ==
    \A d \in Decs :
        (dpc[d] # "idle" /\ afterSuccess[d]) =>
            /\ dpc[d] = "failed"
            /\ dcause[d] = "unknownSession"
            /\ dres[d] = "none"
            /\ dinv[d] = 0

\* A second call for a session id whose first call succeeded has failed.
SingleUseWitness ==
    \E d1, d2 \in Decs :
        /\ d1 # d2
        /\ dpc[d1] = "done"
        /\ dpc[d2] = "failed"
        /\ afterSuccess[d2]
        /\ dSessionId(d1) = dSessionId(d2)

\* C2: key consumed on read.  Once a decryptResponse call that found a key
\* entry has ended, with success or with failure, the key store no longer
\* holds that entry.
KeyConsumedOnRead ==
    \A d \in Decs :
        (Finished(d) /\ dkey[d] # Null) => aesKeyStore[dSessionId(d)] # dkey[d]

\* C3: atomic take.  Of the decryptResponse calls for one session id that are
\* in flight together, at most one obtains the key and succeeds: no key entry
\* is the key of two successful calls.
AtomicTake ==
    \A d1, d2 \in Decs :
        (d1 # d2 /\ dpc[d1] = "done" /\ dpc[d2] = "done") => dkey[d1] # dkey[d2]

\* An entry is live while the request that registered it has not failed.
Live(s) ==
    /\ aesKeyStore[s] # Null
    /\ \E r \in Reqs : aesKey[r] = aesKeyStore[s] /\ pc[r] # "failed"

\* C4: no silent overwrite.  No step replaces a live key-store entry by
\* another key: a live entry keeps its key until it is removed.
NoSilentOverwrite ==
    [][\A s \in SessionIds :
          Live(s) => aesKeyStore'[s] \in {aesKeyStore[s], Null}]_vars

\* The session ids the endpoint has issued are pairwise distinct.
DistinctSessions ==
    \A r1, r2 \in Reqs :
        (r1 # r2 /\ issued[r1] # Null /\ issued[r2] # Null) =>
            sessionId(issued[r1]) # sessionId(issued[r2])

\* C5: concurrent requests do not interfere.  While the issued session ids are
\* pairwise distinct, the key a decryptResponse call obtains is the key
\* generated by the encryptRequest call that was issued its session id.
NoInterference ==
    DistinctSessions =>
        \A d \in Decs :
            dkey[d] # Null =>
                /\ \E r \in Reqs :
                      issued[r] # Null /\ sessionId(issued[r]) = dSessionId(d)
                /\ \A r \in Reqs :
                      (issued[r] # Null /\ sessionId(issued[r]) = dSessionId(d)) =>
                          dkey[d] = aesKey[r]

\* Two cycles with different session ids, both responses decrypted, the second
\* request having obtained its session while the first was still running.
NoInterferenceWitness ==
    \E r1, r2 \in Reqs, d1, d2 \in Decs :
        /\ r1 # r2 /\ d1 # d2
        /\ DistinctSessions
        /\ curAtReturn[r1] = issued[r2]
        /\ dpc[d1] = "done" /\ dkey[d1] = aesKey[r1]
        /\ dpc[d2] = "done" /\ dkey[d2] = aesKey[r2]

\* C6: lifecycle order.  The events of one request occur in the order session
\* acquired, key registered, payload encrypted, key wrapped, envelope
\* returned, response received, key removed, response decrypted.
LifecycleInOrder ==
    \A r \in Reqs :
        \A i \in 1..Len(log[r]) : log[r][i] = LifecycleOrder[i]

\* C7: no session reuse.  Every encryptRequest call makes exactly one
\* getPublicKey call, and the session id and the public key of its envelope
\* are those the endpoint returned to that call.
NoSessionReuse ==
    \A r \in Reqs :
        /\ pc[r] # "idle" => gpkCalls[r] = 1
        /\ envelope[r] # Null =>
              /\ envSessionId(envelope[r]) = sessionId(issued[r])
              /\ envEncryptedKey(envelope[r])[2] = publicKey(issued[r])
              /\ envEncryptedKey(envelope[r])[4] = aesKey[r]

\* A call returned its envelope when currentSession held the different
\* session of another call, assigned while the first was running.
NoSessionReuseWitness ==
    \E r \in Reqs :
        /\ pc[r] = "done"
        /\ curAtReturn[r] # Null
        /\ sessionId(curAtReturn[r]) # sessionId(issued[r])

\* No encryptRequest or decryptResponse call is suspended at an await.
Quiescent ==
    /\ \A r \in Reqs : ~InFlight(r)
    /\ \A d \in Decs : dpc[d] # "decryptPayload"

\* C8: no orphaned keys.  The entry registered by a request that failed after
\* registering it is removed: once nothing is left running, it is gone.
NoOrphanedKeys ==
    \A r \in Reqs :
        (pc[r] = "failed" /\ aesKey[r] # Null /\ Quiescent) =>
            aesKeyStore[sessionId(issued[r])] # aesKey[r]

\* The key-store entries that differ between two stores.
Changed(a, b) == {s \in SessionIds : a[s] # b[s]}

PreciseFailureKinds ==
    /\ \A r1, r2 \in Reqs :
          (pc[r1] = "failed" /\ pc[r2] = "failed" /\ ecause[r1] # ecause[r2]) =>
              eerr[r1] # eerr[r2]
    /\ \A d1, d2 \in Decs :
          (dpc[d1] = "failed" /\ dpc[d2] = "failed" /\ dcause[d1] # dcause[d2]) =>
              derr[d1] # derr[d2]

\* C12: the response's encryptedKey is ignored.  Whatever encryptedKey the
\* response of a decryptResponse call might have carried instead, each step of
\* the call has the same outcome: the key it obtains is the entry stored
\* under the sessionId (the call fails when there is none) and the key store
\* is left as it is; the call then succeeds or fails as decryptPayload of the
\* encryptedData under that key does, and only success removes the entry.
EncryptedKeyIgnored ==
    [][\A d \in Decs :
          /\ (dpc[d] = "idle" /\ dpc'[d] # "idle") =>
                \A k \in ResponseKeys :
                    LET other == EncryptedEnvelope(envSessionId(denv'[d]),
                                                   envEncryptedData(denv'[d]), k)
                        key == KeyForResponse(aesKeyStore, other)
                    IN  /\ aesKeyStore' = aesKeyStore
                        /\ IF key = Null
                           THEN /\ dpc'[d] = "failed"
                                /\ dcause'[d] = "unknownSession"
                                /\ dres'[d] = "none"
                           ELSE /\ dpc'[d] = "decryptPayload"
                                /\ dkey'[d] = key
          /\ (dpc[d] = "decryptPayload" /\ dpc'[d] # "decryptPayload") =>
                IF decryptPayload(envEncryptedData(denv[d]), dkey[d]) = "ok"
                THEN /\ dpc'[d] = "done"
                     /\ dres'[d] = envEncryptedData(denv[d])[3]
                     /\ aesKeyStore' = DeleteKey(aesKeyStore, dSessionId(d))
                ELSE /\ dpc'[d] = "failed"
                     /\ dres'[d] = "none"
                     /\ aesKeyStore' = aesKeyStore]_vars

\* Two calls whose responses agree on sessionId and encryptedData and differ
\* in encryptedKey have obtained the same key, the one registered by the
\* request of that session.
EncryptedKeyIgnoredWitness ==
    \E d1, d2 \in Decs :
        /\ dpc[d1] = "decryptPayload" /\ dpc[d2] = "decryptPayload"
        /\ envSessionId(denv[d1]) = envSessionId(denv[d2])
        /\ envEncryptedData(denv[d1]) = envEncryptedData(denv[d2])
        /\ envEncryptedKey(denv[d1]) # envEncryptedKey(denv[d2])
        /\ dkey[d1] = dkey[d2]
        /\ \E r \in Reqs : pc[r] = "done" /\ dkey[d1] = aesKey[r]

\* C13: one fresh key per request.  Of the steps of an encryptRequest call,
\* only the registration changes the key store: it changes exactly the entry
\* of the call's session id, to the key generated by the call, which no other
\* call has generated and no entry holds; the call keeps that key, and the
\* envelope it returns carries that session id, data encrypted under that key
\* and that key wrapped.
OneFreshKeyPerRequest ==
    [][\A r \in Reqs :
          pc'[r] # pc[r] =>
              /\ IF pc[r] = "generateKey"
                 THEN /\ Changed(aesKeyStore', aesKeyStore) = {sessionId(session[r])}
                      /\ aesKeyStore'[sessionId(session[r])] = aesKey'[r]
                      /\ aesKey'[r] # Null
                      /\ \A x \in Reqs \ {r} : aesKey[x] # aesKey'[r]
                      /\ \A s \in SessionIds : aesKeyStore[s] # aesKey'[r]
                 ELSE /\ aesKeyStore' = aesKeyStore
                      /\ aesKey'[r] = aesKey[r]
              /\ pc'[r] = "done" =>
                    /\ envSessionId(envelope'[r]) = sessionId(session[r])
                    /\ envEncryptedData(envelope'[r]) = encryptPayload("json", aesKey[r])
                    /\ envEncryptedKey(envelope'[r])[4] = aesKey[r]
                    /\ "registered" \in Range(log[r])]_vars

\* Two requests have returned envelopes with different session ids, and the
\* key store holds each one's own key under its id.
OneFreshKeyPerRequestWitness ==
    \E r1, r2 \in Reqs :
        /\ pc[r1] = "done" /\ pc[r2] = "done"
        /\ envSessionId(envelope[r1]) # envSessionId(envelope[r2])
        /\ aesKey[r1] # aesKey[r2]
        /\ aesKeyStore[envSessionId(envelope[r1])] = aesKey[r1]
        /\ aesKeyStore[envSessionId(envelope[r2])] = aesKey[r2]

\* C14: session validation.  The getPublicKey call of a request leaves the
\* key store as it is, and either returns a SessionInfo with a non-empty
\* sessionId and a non-empty publicKey, which currentSession then holds, or
\* fails with the session-establishment failure and leaves currentSession as
\* it is.
SessionValidation ==
    [][\A r \in Reqs :
          (pc[r] = "getPublicKey" /\ pc'[r] # "getPublicKey") =>
              /\ aesKeyStore' = aesKeyStore
              /\ IF session'[r] # Null
                 THEN /\ sessionId(session'[r]) # 0
                      /\ publicKey(session'[r]) # ""
                      /\ currentSession' = session'[r]
                      /\ pc'[r] # "failed"
                 ELSE /\ pc'[r] = "failed"
                      /\ ecause'[r] = "session"
                      /\ currentSession' = currentSession]_vars

\* A getPublicKey call has failed while currentSession held the session of an
\* earlier request and the key store held that request's key: both are as
\* they were.
SessionValidationWitness ==
    \E r1, r2 \in Reqs :
        /\ pc[r2] = "failed" /\ ecause[r2] = "session" /\ session[r2] = Null
        /\ issued[r1] # Null
        /\ currentSession = issued[r1]
        /\ aesKeyStore[sessionId(issued[r1])] = aesKey[r1]
        /\ aesKey[r1] # Null

\* The steps of an encryptRequest call and of a decryptResponse call, in the
\* order of the code.
EncryptSteps ==
    <<"idle", "getPublicKey", "generateKey", "encryptPayload", "importKey",
      "encryptWithRSA", "done">>
DecryptSteps == <<"idle", "decryptPayload", "done">>
StepIndex(steps, at) == CHOOSE i \in 1..Len(steps) : steps[i] = at

\* C15: no internal retry.  A call moves from each step to the next one or
\* fails; a call that has failed or returned does nothing more; a failed call
\* has returned nothing; and the key-issuance endpoint and decryptPayload have
\* been called at most once by each call.
NoInternalRetry ==
    [][/\ \A r \in Reqs :
            /\ pc'[r] # pc[r] =>
                  /\ pc[r] \notin {"done", "failed"}
                  /\ \/ pc'[r] = "failed"
                     \/ StepIndex(EncryptSteps, pc'[r]) =
                            StepIndex(EncryptSteps, pc[r]) + 1
            /\ pc'[r] = "failed" => (envelope'[r] = Null /\ eerr'[r] # "none")
            /\ gpkCalls'[r] <= 1
       /\ \A d \in Decs :
            /\ dpc'[d] # dpc[d] =>
                  /\ dpc[d] \notin {"done", "failed"}
                  /\ \/ dpc'[d] = "failed"
                     \/ StepIndex(DecryptSteps, dpc'[d]) =
                            StepIndex(DecryptSteps, dpc[d]) + 1
            /\ dpc'[d] = "failed" => (dres'[d] = "none" /\ derr'[d] # "none")
            /\ dinv'[d] <= 1]_vars

\* One request has failed at its last step, the RSA wrap, after one call of
\* the endpoint, and one decryptResponse call has failed after one call of
\* decryptPayload.
NoInternalRetryWitness ==
    /\ \E r \in Reqs :
          pc[r] = "failed" /\ ecause[r] = "wrap" /\ gpkCalls[r] = 1
    /\ \E d \in Decs :
          dpc[d] = "failed" /\ dcause[d] = "decrypt" /\ dinv[d] = 1

\* The expiryTime of session s is in the past at time t.
Expired(s, t) == expiryTime(s) < t

\* C16: expired sessions are not used.  When an encryptRequest call registers
\* its key and when it returns its envelope, the expiryTime of its session is
\* not in the past.
ExpiredSessionNotUsed ==
    [][\A r \in Reqs :
          /\ (pc[r] = "generateKey" /\ pc'[r] # "generateKey") =>
                ~Expired(session[r], now)
          /\ (pc[r] # "done" /\ pc'[r] = "done") =>
                ~Expired(session[r], now)]_vars

\* C17: key-store ownership.  Every step that changes the key store is either
\* the registration step of an encryptRequest call, which sets the entry of
\* the call's session id to the call's key and changes no other entry, or the
\* returning step of a successful decryptResponse call, which removes the
\* entry of the response's session id and changes no other entry.
KeyStoreOwnership ==
    [][aesKeyStore' # aesKeyStore =>
          \/ \E r \in Reqs :
                /\ pc[r] = "generateKey" /\ pc'[r] = "encryptPayload"
                /\ Changed(aesKeyStore', aesKeyStore) = {sessionId(session[r])}
                /\ aesKeyStore'[sessionId(session[r])] = aesKey'[r]
                /\ aesKey'[r] # Null
          \/ \E d \in Decs :
                /\ dpc[d] = "decryptPayload" /\ dpc'[d] = "done"
                /\ Changed(aesKeyStore', aesKeyStore) = {dSessionId(d)}
                /\ aesKeyStore'[dSessionId(d)] = Null]_vars

\* clearSession has run after a request registered its key (getCurrentSession
\* returns null again) and the key store still holds that key.
KeyStoreOwnershipWitness ==
    /\ getCurrentSession = Null
    /\ \E r \in Reqs :
          /\ issued[r] # Null /\ aesKey[r] # Null
          /\ aesKeyStore[sessionId(issued[r])] = aesKey[r]

\* C18: raw key bytes are wrapped.  The encryptedKey of every envelope
\* encryptRequest returns is RSA-OAEP over the raw bytes of the request's key:
\* what encryptAESKey produces for that key and that public key.
RawKeyBytesWrapped ==
    \A r \in Reqs :
        envelope[r] # Null =>
            /\ envEncryptedKey(envelope[r])[3] = "raw"
            /\ envEncryptedKey(envelope[r]) =
                  encryptAESKey(aesKey[r], publicKey(session[r]))

\* The text is the base64 DER of key pk between the PEM header and footer
\* lines, with newlines between the pieces.
IsPemOf(text, pk) ==
    /\ RemoveWhitespace(text) = <<PemHeader>> \o Base64Text(pk) \o <<PemFooter>>
    /\ "\n" \in Range(text)

\* C19: PEM tolerance.  Given the PEM text of a key, importRSAPublicKeyFromBase64
\* (the import of encryptRequest) and importPublicKey (the import of
\* encryptAESKey) each return the key that the raw base64 DER of that key
\* imports to.
PemTolerance ==
    \A pk \in {"spki2048", "spki512"} :
        IsPemOf(args, pk) =>
            /\ results[1] # "pending" =>
                  /\ results[1] = ImportRSAPublicKeyFromText(Base64Text(pk))
                  /\ results[1] = pk
            /\ results[2] # "pending" =>
                  /\ results[2] = importPublicKey(Base64Text(pk))
                  /\ results[2] = pk

\* C20: round trip.  encryptPayload of a JSON-serializable payload under a
\* generated key returns, reporting that key as the key used, and
\* decryptPayload of its encryptedData under that key returns a value whose
\* JSON serialization is that of the payload.
RoundTrip ==
    /\ results[1] # Pending =>
          /\ results[1] # Threw
          /\ results[1][2] = args[3]
    /\ results[2] # Pending =>
          /\ results[2] # Threw
          /\ JsonStringify(results[2][2], args[2]) = JsonStringify(args[1], args[2])

\* C20 for payloads within the argument limit of the engine: the round trip
\* returns a value of equal JSON serialization.
RoundTripShort ==
    args[2] = "short" => RoundTrip

\* C21: integrity.  decryptPayload returns a payload only when the envelope
\* it is given is, byte for byte, the one encryptPayload returned and the key
\* is the key it was encrypted under, and the payload is then the one that was
\* encrypted; given an envelope with a byte of the IV, of the ciphertext or of
\* the tag changed, a truncated envelope or another key, it throws.
Integrity ==
    results[2] # Pending =>
        IF results[3] = results[1][1] /\ args[5] = args[3]
        THEN results[2] = <<"value", Written(args[1])>>
        ELSE results[2] = Threw

\* The region of the envelope a position lies in.
Region(v, p) ==
    IF p <= IvLength THEN "iv"
    ELSE IF p <= IvLength + JsonLength(Written(v)) THEN "ciphertext"
    ELSE "tag"

\* decryptPayload has thrown, under the key of the encryption, on an envelope
\* with one byte of the tag changed.
IntegrityWitness ==
    /\ args[4][1] = "flip"
    /\ Region(args[1], args[4][2]) = "tag"
    /\ args[5] = args[3]
    /\ results[3] # Pending
    /\ results[3] # results[1][1]
    /\ results[2] = Threw

\* C22: fresh IV per encryption.  Two encryptPayload calls with the same
\* payload and the same key put different IVs in front of their results and
\* return different encryptedData, and decryptPayload of each result under
\* that key returns the payload.
FreshIv ==
    /\ results[3] # Pending =>
          /\ results[1] # Threw /\ results[3] # Threw
          /\ IvOf(results[1][1]) # IvOf(results[3][1])
          /\ results[1][1] # results[3][1]
    /\ results[2] # Pending => results[2] = <<"value", Written(args[1])>>
    /\ results[4] # Pending => results[4] = <<"value", Written(args[1])>>

\* Both calls have returned, with different data, and both results have been
\* decrypted.
FreshIvWitness ==
    /\ results[2] \notin {Pending, Threw}
    /\ results[4] \notin {Pending, Threw}
    /\ results[1][1] # results[3][1]
    /\ results[2] = results[4]

\* The UTF-8 bytes of the JSON text of the payload of the call.
PayloadBytes == TextEncode(JsonStringify(args[1], args[2]))

\* C24: envelope size.  For a payload whose JSON text is N bytes in UTF-8, the
\* decoded encryptedData that encryptPayload returns is 12 + N + 16 bytes:
\* the 12 bytes of the IV, then the N bytes of the ciphertext, then the 16
\* bytes of the tag; decryptPayload splits it after byte 12, into that IV and
\* the N + 16 bytes it decrypts.
EnvelopeSize ==
    results[1] \notin {Pending, Threw} =>
        LET bytes == Atob(results[1][1])
            N == Len(PayloadBytes)
        IN  /\ Len(bytes) = 12 + N + 16
            /\ \E iv \in IVs :
                  /\ SubSeq(bytes, 1, 12) = IvBytes(iv)
                  /\ SubSeq(bytes, 13, 12 + N) =
                        GcmCiphertext(args[3], IvBytes(iv), PayloadBytes)
                  /\ SubSeq(bytes, 12 + N + 1, 12 + N + 16) =
                        GcmTag(args[3], IvBytes(iv),
                               GcmCiphertext(args[3], IvBytes(iv), PayloadBytes))
            /\ SplitCombined(bytes) = <<SubSeq(bytes, 1, 12), SubSeq(bytes, 13, Len(bytes))>>
            /\ Len(SplitCombined(bytes)[2]) = N + 16

\* encryptPayload has returned the 37 bytes of a payload of 9 bytes, and
\* decryptPayload has returned the payload from them.
EnvelopeSizeWitness ==
    /\ results[1] \notin {Pending, Threw}
    /\ Len(PayloadBytes) = 9
    /\ Len(Atob(results[1][1])) = 37
    /\ results[2] = <<"value", Written(args[1])>>

\* C23: envelope predicate.  isEncryptedResponse(c) counts as true exactly
\* when c is neither null nor undefined and its sessionId, encryptedData and
\* encryptedKey are all of type string, whatever the strings are; the call
\* leaves the key store and currentSession as they are.
EnvelopePredicate ==
    results # Pending =>
        /\ Truthy(results) <=>
              /\ args[1] \notin {"null", "undefined"}
              /\ \A i \in 1..3 : Property(args, i)[1] = "string"
        /\ aesKeyStore = [s \in SessionIds |-> Null]
        /\ currentSession = Null

\* The predicate has held of an object whose three properties are empty
\* strings: no session id on file, no base64 data.
EnvelopePredicateWitness ==
    /\ args = <<"object", <<<<"string", <<"">>>>, <<"string", <<"">>>>,
                            <<"string", <<"">>>>>>>>
    /\ results # Pending
    /\ Truthy(results)

\* The interceptor has settled the promise of response d.
Settled(d) == outcome[d] \in {"resolved", "apiError", "decryptionError"}

\* C25: interceptor routing.  The interceptor calls decryptResponse for a
\* response exactly when the data it arrived with satisfies
\* isEncryptedResponse, and when the call has succeeded response.data is the
\* decrypted payload; a response whose data is not envelope-shaped is settled
\* in the step it arrives in, with its data as it came, the key store
\* untouched and decryptPayload not called.
InterceptorRouting ==
    [][\A d \in Decs :
          /\ dpc'[d] # "idle" <=>
                /\ arrived'[d] # Null
                /\ Truthy(arrived'[d])
                /\ Truthy(isEncryptedResponse(arrived'[d]))
          /\ (Settled(d)' /\ dpc'[d] = "done") =>
                responseData'[d] = DataOf(dres'[d])
          /\ (arrived[d] = Null /\ arrived'[d] # Null /\ dpc'[d] = "idle") =>
                /\ responseData'[d] = arrived'[d]
                /\ outcome'[d] \in {"resolved", "apiError"}
                /\ aesKeyStore' = aesKeyStore
                /\ dinv'[d] = 0
          /\ (arrived'[d] # Null /\ dpc'[d] = "idle") =>
                responseData'[d] = arrived'[d]]_vars

\* One response has been decrypted and returned with the decrypted payload as
\* its data; another, with sessionId and encryptedData and no encryptedKey,
\* has been returned as it came while the key of its session id is on file.
InterceptorRoutingWitness ==
    \E d1, d2 \in Decs, s \in SessionIds :
        /\ dpc[d1] = "done" /\ outcome[d1] = "resolved"
        /\ responseData[d1] = PlainBody(JsTrue)
        /\ arrived[d2] = KeylessBody(s, JsUndefined)
        /\ outcome[d2] = "resolved"
        /\ responseData[d2] = arrived[d2]
        /\ aesKeyStore[s] # Null

\* C26: interceptor on decryption failure.  When the decryptResponse call of
\* a response has failed, the interceptor rejects with isDecryptionError: the
\* response is never returned, with the envelope or any other data, and the
\* success test is not what rejects it.
DecryptionFailureRejected ==
    [][\A d \in Decs :
          dpc'[d] = "failed" =>
              /\ outcome'[d] \in {"awaiting", "decryptionError"}
              /\ (outcome[d] = "awaiting" /\ outcome'[d] # "awaiting") =>
                    outcome'[d] = "decryptionError"
              /\ responseData'[d] = arrived'[d]]_vars

\* Two responses have been rejected with isDecryptionError: one whose tag did
\* not verify, one for a session id without a key, whose body has a success
\* property that is false.
DecryptionFailureRejectedWitness ==
    \E d1, d2 \in Decs :
        /\ dcause[d1] = "decrypt" /\ outcome[d1] = "decryptionError"
        /\ dcause[d2] = "unknownSession" /\ outcome[d2] = "decryptionError"
        /\ Property(arrived[d2], 4) = JsFalse

\* C27: decrypt before success check.  The success test reads the data after
\* decryption: a response that was decrypted is rejected with isApiError
\* exactly when the decrypted payload has success false, and a response that
\* was not envelope-shaped exactly when its own data has; neither is returned.
SuccessCheckedAfterDecryption ==
    \A d \in Decs :
        /\ (Settled(d) /\ dpc[d] = "done") =>
              (outcome[d] = "apiError" <=> dres[d] = "failure")
        /\ (Settled(d) /\ dpc[d] = "idle") =>
              (outcome[d] = "apiError" <=> Property(arrived[d], 4) = JsFalse)
        /\ outcome[d] = "resolved" =>
              Property(responseData[d], 4) # JsFalse

\* A response whose body had no success property has been decrypted to an
\* API result with success false and rejected with isApiError, and one whose
\* body said success false has been decrypted to success true and returned.
SuccessCheckedAfterDecryptionWitness ==
    \E d1, d2 \in Decs :
        /\ dpc[d1] = "done" /\ dres[d1] = "failure"
        /\ Property(arrived[d1], 4) = JsUndefined
        /\ outcome[d1] = "apiError"
        /\ dpc[d2] = "done" /\ dres[d2] = "success"
        /\ Property(arrived[d2], 4) = JsFalse
        /\ outcome[d2] = "resolved"

\* C28: every sent envelope has a registered key.  While the session ids
\* issued are pairwise distinct, the key that encrypted an envelope the client
\* has sent is in the key store under the envelope's sessionId until a
\* response for that sessionId arrives, and a response that arrives for the
\* sessionId of an envelope already sent is not rejected for lack of a key
\* unless an earlier response for it was decrypted.
EverySentEnvelopeRegistered ==
    [][DistinctSessions' =>
          /\ \A r \in Reqs :
                (/\ envelope'[r] # Null
                 /\ \A d \in Decs :
                       \/ dpc'[d] = "idle"
                       \/ envSessionId(denv'[d]) # envSessionId(envelope'[r])) =>
                    aesKeyStore'[envSessionId(envelope'[r])] = aesKey'[r]
          /\ \A d \in Decs :
                (dpc[d] = "idle" /\ dcause'[d] = "unknownSession") =>
                    \/ RequestsOf(envSessionId(denv'[d])) = {}
                    \/ consumed[envSessionId(denv'[d])]]_vars

\* C28, the consequence on the AddCard path: the envelope-shaped response to
\* a submit, encrypted under the key of the submit, is rejected by the
\* interceptor for lack of a key.
AddCardResponseRejected ==
    \E r \in Reqs, d \in Decs :
        /\ envelope[r] # Null
        /\ "registered" \notin Range(log[r])
        /\ dcause[d] = "unknownSession"
        /\ outcome[d] = "decryptionError"
        /\ dSessionId(d) = envSessionId(envelope[r])

\* C29: frame of decryptResponse.  No step of a decryptResponse call for
\* session id s, whether the call goes on, returns or throws, changes the
\* key-store entry of another session id, whatever encryptRequest calls are
\* running in between its steps.
DecryptResponseFrame ==
    [][\A d \in Decs :
          dpc'[d] # dpc[d] =>
              \A s \in SessionIds \ {envSessionId(denv'[d])} :
                  aesKeyStore'[s] = aesKeyStore[s]]_vars

\* A decryptResponse call has returned and another has thrown at the tag
\* check while an encryptRequest call that is still running holds its key in
\* the store under another session id.
DecryptResponseFrameWitness ==
    \E d1, d2 \in Decs, r \in Reqs :
        /\ dpc[d1] = "done"
        /\ dpc[d2] = "failed" /\ dcause[d2] = "decrypt"
        /\ InFlight(r)
        /\ aesKey[r] # Null
        /\ sessionId(session[r]) # dSessionId(d1)
        /\ aesKeyStore[sessionId(session[r])] = aesKey[r]

\* C30: the legacy current-session field.  A step in which a getPublicKey
\* call succeeds leaves getCurrentSession at the SessionInfo that call
\* returns; a clearSession step leaves it at null; every other step leaves it
\* as it was, so after any sequence of operations it is null when
\* clearSession ran after the last successful getPublicKey or none ever
\* succeeded, and that call's SessionInfo otherwise.  clearSession changes
\* nothing else: the key store and every running call are as before, and a
\* response for a request outstanding at a clearSession finds its key and,
\* encrypted under it, decrypts.
LegacyCurrentSession ==
    [][/\ \A r \in Reqs :
              (pc[r] = "getPublicKey" /\ session'[r] # Null) =>
                  /\ getCurrentSession' = session'[r]
                  /\ session'[r] = issued'[r]
       /\ (\A r \in Reqs : ~(pc[r] = "getPublicKey" /\ session'[r] # Null)) =>
              getCurrentSession' \in {getCurrentSession, Null}
       /\ getCurrentSession' # getCurrentSession /\ getCurrentSession' = Null =>
              /\ aesKeyStore' = aesKeyStore
              /\ UNCHANGED encVars
              /\ UNCHANGED decVars
       /\ \A r \in Reqs, d \in Decs :
              /\ clearedFor[r] /\ Outstanding(r) /\ dpc[d] = "idle"
                 /\ dpc'[d] # "idle"
                 /\ envSessionId(denv'[d]) = envSessionId(envelope[r]) =>
                     dpc'[d] = "decryptPayload" /\ dkey'[d] = aesKey[r]
              /\ clearedFor[r] /\ dpc[d] = "decryptPayload"
                 /\ dkey[d] = aesKey[r] /\ dpc'[d] # dpc[d]
                 /\ decryptPayload(envEncryptedData(denv[d]), dkey[d]) = "ok" =>
                     dpc'[d] = "done"]_vars

\* clearSession ran while a request was outstanding, no session is current
\* since, and a response for that request has been decrypted with the
\* request's key.
LegacyCurrentSessionWitness ==
    \E r \in Reqs, d \in Decs :
        /\ clearedFor[r]
        /\ getCurrentSession = Null
        /\ curAtReturn[r] = issued[r]
        /\ dpc[d] = "done"
        /\ dkey[d] = aesKey[r]
        /\ dSessionId(d) = envSessionId(envelope[r])

====
